---- MODULE Spec2Model ----
(***************************************************************************)
(* SuperSpec: the archive command's delta merge (src/cli/commands/         *)
(* archive.ts).                                                            *)
(*                                                                         *)
(* Text is a sequence of tokens.  A token is one character (" ", "\n", a   *)
(* letter, "$", "&", "BQ") or one of the fixed literals the code's regular  *)
(* expressions look for, kept whole:                                       *)
(*   "H"        ### Requirement:        (without the following space)      *)
(*   "ADDED"    ## ADDED Requirements   "MODIFIED", "REMOVED", "RENAMED"   *)
(*   "FROM"     - FROM:                 "TO"   - TO:                       *)
(*   "BQ"       the backquote                                              *)
(*   "REASON"   **Reason**:                                                *)
(***************************************************************************)
EXTENDS Naturals, Sequences, FiniteSets

\* ------------------------------------------------------------------ bounds
\* longest baseline, in requirement blocks
MaxReqs == 3
\* longest delta document, in entries
MaxOps == 3

\* ------------------------------------------------------------- text helpers
\* the characters String.prototype.trim removes, among the model's tokens
IsWs(c) == c \in {" ", "\n"}

NonWsIdx(s) == {i \in 1..Len(s) : ~IsWs(s[i])}

MinOf(S) == CHOOSE m \in S : \A k \in S : m <= k
MaxOf(S) == CHOOSE m \in S : \A k \in S : m >= k

TrimEnd(s) == IF NonWsIdx(s) = {} THEN <<>> ELSE SubSeq(s, 1, MaxOf(NonWsIdx(s)))

TrimStart(s) == IF NonWsIdx(s) = {} THEN <<>> ELSE SubSeq(s, MinOf(NonWsIdx(s)), Len(s))

Trim(s) == TrimStart(TrimEnd(s))

\* p occurs in s at index i
StartsWithAt(s, p, i) ==
    /\ i >= 1
    /\ i + Len(p) - 1 <= Len(s)
    /\ \A k \in 1..Len(p) : s[i + k - 1] = p[k]

\* first index >= from at which p occurs in s, 0 when there is none
IndexOf(s, p, from) ==
    LET hits == {i \in from..Len(s) : StartsWithAt(s, p, i)}
    IN  IF hits = {} THEN 0 ELSE MinOf(hits)

\* String.prototype.split("\n")
RECURSIVE SplitLines(_)
SplitLines(s) ==
    LET nl == {i \in 1..Len(s) : s[i] = "\n"}
    IN  IF nl = {} THEN <<s>>
        ELSE <<SubSeq(s, 1, MinOf(nl) - 1)>> \o SplitLines(SubSeq(s, MinOf(nl) + 1, Len(s)))

\* Array.prototype.join("\n")
RECURSIVE JoinLines(_)
JoinLines(ls) ==
    IF ls = <<>> THEN <<>>
    ELSE IF Len(ls) = 1 THEN ls[1]
    ELSE ls[1] \o <<"\n">> \o JoinLines(Tail(ls))

\* The replacement string of String.prototype.replace: "$$" yields "$" and
\* "$&" yields the matched text; every other token stands for itself (a "$"
\* before anything else is literal, the patterns have no capture groups).
RECURSIVE GetSubstitution(_, _)
GetSubstitution(repl, matched) ==
    IF repl = <<>> THEN <<>>
    ELSE IF Len(repl) >= 2 /\ repl[1] = "$" /\ repl[2] = "$"
         THEN <<"$">> \o GetSubstitution(SubSeq(repl, 3, Len(repl)), matched)
    ELSE IF Len(repl) >= 2 /\ repl[1] = "$" /\ repl[2] = "&"
         THEN matched \o GetSubstitution(SubSeq(repl, 3, Len(repl)), matched)
    ELSE <<repl[1]>> \o GetSubstitution(Tail(repl), matched)

\* mainContent.replace(pattern, replacement) with a string pattern: the
\* first occurrence only
ReplaceFirst(s, pat, repl) ==
    LET i == IndexOf(s, pat, 1)
    IN  IF i = 0 THEN s
        ELSE SubSeq(s, 1, i - 1) \o GetSubstitution(repl, pat)
             \o SubSeq(s, i + Len(pat), Len(s))

\* `### Requirement: ${name}`
Heading(name) == <<"H", " ">> \o name

\* the characters escapeRegex prefixes with a backslash
RegexMeta == {".", "*", "+", "?", "^", "$", "{", "}", "(", ")", "|", "[", "]", "\\"}

\* escapeRegex: the pattern source for str.  A pattern is a sequence of
\* atoms; <<"\\", c>> matches the character c and nothing else, <<c>> is the
\* unescaped character c.
EscapeRegex(str) ==
    [i \in 1..Len(str) |-> IF str[i] \in RegexMeta THEN <<"\\", str[i]>> ELSE <<str[i]>>]

\* what one atom of a pattern source matches: an unescaped "." is any
\* character but a line terminator
AtomMatches(atom, c) ==
    IF Len(atom) = 2 THEN c = atom[2]
    ELSE IF atom[1] = "." THEN c # "\n"
    ELSE c = atom[1]

\* the pattern `### Requirement: ` followed by the atoms of src matches at i
HeadingMatchAt(s, src, i) ==
    /\ StartsWithAt(s, <<"H", " ">>, i)
    /\ i + 1 + Len(src) <= Len(s)
    /\ \A k \in 1..Len(src) : AtomMatches(src[k], s[i + 1 + k])

\* mainContent.replace(new RegExp(`### Requirement: ${src}[\s\S]*?(?=###
\* Requirement:|$)`, 'g'), repl), scanning from index pos: every match runs
\* from a heading that starts with the name to just before the next
\* "### Requirement:" or to the end of the text.
RECURSIVE ReplaceSections(_, _, _, _)
ReplaceSections(s, src, repl, pos) ==
    LET hits == {i \in pos..Len(s) : HeadingMatchAt(s, src, i)}
    IN  IF hits = {} THEN SubSeq(s, pos, Len(s))
        ELSE LET i    == MinOf(hits)
                 e    == i + 2 + Len(src)
                 nxt  == {j \in e..Len(s) : s[j] = "H"}
                 j    == IF nxt = {} THEN Len(s) + 1 ELSE MinOf(nxt)
             IN  SubSeq(s, pos, i - 1)
                 \o GetSubstitution(repl, SubSeq(s, i, j - 1))
                 \o ReplaceSections(s, src, repl, j)

\* --------------------------------------------------- parseDeltaOperations
\* interface DeltaOperation; a field the code leaves undefined is <<>>
DeltaOperation(type, requirement, content, fromName, toName) ==
    [type |-> type, requirement |-> requirement, content |-> content,
     fromName |-> fromName, toName |-> toName]

\* line.match(/^## ADDED Requirements/i) and the three like it: the section
\* a heading line switches to, "none" for every other line; "Removed" is
\* the REMOVED heading in another letter case
SectionOf(line) ==
    IF line = <<>> THEN "none"
    ELSE IF line[1] = "ADDED" THEN "added"
    ELSE IF line[1] = "MODIFIED" THEN "modified"
    ELSE IF line[1] \in {"REMOVED", "Removed"} THEN "removed"
    ELSE IF line[1] = "RENAMED" THEN "renamed"
    ELSE "none"

\* line.match(/^### Requirement: (.+)$/)?.[1], <<>> when there is no match
ReqMatch(line) ==
    IF Len(line) >= 3 /\ line[1] = "H" /\ line[2] = " "
    THEN SubSeq(line, 3, Len(line)) ELSE <<>>

\* line.match(/^- FROM:.*BQ### Requirement: (.+)BQ/)?.[1] with kw = "FROM",
\* the TO pattern with kw = "TO" (BQ is the backquote): both quantifiers are
\* greedy, so the last opening and the last closing backquote delimit the name
RenameMatch(line, kw) ==
    LET opens == {i \in 2..Len(line) :
                    /\ StartsWithAt(line, <<"BQ", "H", " ">>, i)
                    /\ \E j \in (i + 4)..Len(line) : line[j] = "BQ"}
    IN  IF line = <<>> \/ line[1] # kw \/ opens = {} THEN <<>>
        ELSE LET i == MaxOf(opens)
                 j == MaxOf({k \in (i + 4)..Len(line) : line[k] = "BQ"})
             IN  SubSeq(line, i + 3, j - 1)

\* the loop's variables before the first line
ParseStart ==
    [currentSection |-> "none", currentReq |-> <<>>, currentContent |-> <<>>,
     operations |-> <<>>]

\* one iteration of `for (const line of lines)`
ParseLine(st, line) ==
    IF SectionOf(line) # "none"
    THEN [st EXCEPT !.currentSection = SectionOf(line)]
    ELSE IF ReqMatch(line) # <<>> /\ st.currentSection # "none"
    THEN [st EXCEPT
            !.operations = IF st.currentReq # <<>>
                           THEN Append(@, DeltaOperation(st.currentSection, st.currentReq,
                                                         JoinLines(st.currentContent), <<>>, <<>>))
                           ELSE @,
            !.currentReq = ReqMatch(line),
            !.currentContent = <<line>>]
    ELSE IF st.currentSection = "renamed"
    THEN LET req == IF RenameMatch(line, "FROM") # <<>>
                    THEN RenameMatch(line, "FROM") ELSE st.currentReq
         IN  IF RenameMatch(line, "TO") # <<>> /\ req # <<>>
             THEN [st EXCEPT
                     !.operations = Append(@, DeltaOperation("renamed", req, <<>>, req,
                                                             RenameMatch(line, "TO"))),
                     !.currentReq = <<>>]
             ELSE [st EXCEPT !.currentReq = req]
    ELSE IF st.currentReq # <<>> /\ st.currentSection # "none"
    THEN [st EXCEPT !.currentContent = Append(@, line)]
    ELSE st

RECURSIVE ParseLines(_, _)
ParseLines(st, lines) ==
    IF lines = <<>> THEN st ELSE ParseLines(ParseLine(st, lines[1]), Tail(lines))

\* parseDeltaOperations(content)
ParseDeltaOperations(content) ==
    LET st == ParseLines(ParseStart, SplitLines(content))
    IN  IF st.currentReq # <<>> /\ st.currentSection # "none"
        THEN Append(st.operations, DeltaOperation(st.currentSection, st.currentReq,
                                                  JoinLines(st.currentContent), <<>>, <<>>))
        ELSE st.operations

\* ---------------------------------------------------- applyDeltaToMainSpec
\* const order = { renamed: 0, removed: 1, modified: 2, added: 3 }
Order(type) ==
    IF type = "renamed" THEN 0
    ELSE IF type = "removed" THEN 1
    ELSE IF type = "modified" THEN 2
    ELSE 3

\* a comparator that also puts an operation behind a later one of its own kind
ComesAfterOrEqual(a, b) == Order(a.type) >= Order(b.type)

\* the comparator: order[a.type] - order[b.type] > 0
ComesAfter(a, b) == Order(a.type) > Order(b.type)

\* insert op into a sorted list behind every element it does not precede
RECURSIVE InsertSorted(_, _)
InsertSorted(sortedOps, op) ==
    IF sortedOps = <<>> THEN <<op>>
    ELSE IF ComesAfter(sortedOps[1], op) THEN <<op>> \o sortedOps
    ELSE <<sortedOps[1]>> \o InsertSorted(Tail(sortedOps), op)

\* [...operations].sort(comparator): Array.prototype.sort is stable
RECURSIVE SortOperations(_)
SortOperations(ops) ==
    IF ops = <<>> THEN <<>>
    ELSE InsertSorted(SortOperations(SubSeq(ops, 1, Len(ops) - 1)), ops[Len(ops)])

\* case 'renamed'
ApplyRenamed(text, op) ==
    IF op.fromName # <<>> /\ op.toName # <<>>
    THEN ReplaceFirst(text, Heading(op.fromName), Heading(op.toName))
    ELSE text

\* case 'removed'
ApplyRemoved(text, op) ==
    ReplaceSections(text, EscapeRegex(op.requirement), <<>>, 1)

\* a 'modified' case that appends the content when no block is found
ApplyModifiedOrAppend(text, op) ==
    IF op.content = <<>> THEN text
    ELSE IF \E i \in 1..Len(text) : HeadingMatchAt(text, EscapeRegex(op.requirement), i)
    THEN ReplaceSections(text, EscapeRegex(op.requirement),
                         Trim(op.content) \o <<"\n", "\n">>, 1)
    ELSE TrimEnd(text) \o <<"\n", "\n">> \o Trim(op.content) \o <<"\n">>

\* case 'modified'
ApplyModified(text, op) ==
    IF op.content # <<>>
    THEN ReplaceSections(text, EscapeRegex(op.requirement),
                         Trim(op.content) \o <<"\n", "\n">>, 1)
    ELSE text

\* an 'added' case that puts the content before the text
ApplyAddedInFront(text, op) ==
    IF op.content # <<>>
    THEN Trim(op.content) \o <<"\n", "\n">> \o TrimStart(text)
    ELSE text

\* case 'added'
ApplyAdded(text, op) ==
    IF op.content # <<>>
    THEN TrimEnd(text) \o <<"\n", "\n">> \o Trim(op.content) \o <<"\n">>
    ELSE text

\* switch (op.type): what one iteration does to the text
ApplyOperation(text, op) ==
    IF op.type = "renamed" THEN ApplyRenamed(text, op)
    ELSE IF op.type = "removed" THEN ApplyRemoved(text, op)
    ELSE IF op.type = "modified" THEN ApplyModified(text, op)
    ELSE ApplyAdded(text, op)

\* a loop whose case 'removed' prints nothing
LogLineSilentRemoved(op) ==
    IF op.type = "renamed"
    THEN IF op.fromName # <<>> /\ op.toName # <<>>
         THEN <<[symbol |-> "->", requirement |-> op.fromName]>> ELSE <<>>
    ELSE IF op.type = "removed" THEN <<>>
    ELSE IF op.type = "modified"
    THEN IF op.content # <<>>
         THEN <<[symbol |-> "~", requirement |-> op.requirement]>> ELSE <<>>
    ELSE IF op.content # <<>>
         THEN <<[symbol |-> "+", requirement |-> op.requirement]>> ELSE <<>>

\* the line console.log prints for op, <<>> when the case prints nothing
LogLine(op) ==
    IF op.type = "renamed"
    THEN IF op.fromName # <<>> /\ op.toName # <<>>
         THEN <<[symbol |-> "->", requirement |-> op.fromName]>> ELSE <<>>
    ELSE IF op.type = "removed" THEN <<[symbol |-> "-", requirement |-> op.requirement]>>
    ELSE IF op.type = "modified"
    THEN IF op.content # <<>>
         THEN <<[symbol |-> "~", requirement |-> op.requirement]>> ELSE <<>>
    ELSE IF op.content # <<>>
         THEN <<[symbol |-> "+", requirement |-> op.requirement]>> ELSE <<>>

\* a write that does not trim
WrittenTextUntrimmed(text) == text \o <<"\n">>

\* writeFileSync(mainSpecPath, mainContent.trim() + '\n')
WrittenText(text) == Trim(text) \o <<"\n">>

\* ------------------------------------------------------------------ inputs
\* requirement names: "a" is a proper prefix of "ab", "b" and "c" are not
\* related to either
NameA == <<"a">>
NameAB == <<"a", "b">>
NameB == <<"b">>
NameC == <<"c">>

BaselineNames == {NameA, NameAB, NameB}

\* the description line of the i-th baseline requirement: one per position,
\* so that no two blocks of a baseline have the same text
BodyOf(i) == <<<<"p">>, <<"q">>, <<"s">>, <<"u">>, <<"v">>>>[i]

RequirementBlock(name, body) == Heading(name) \o <<"\n">> \o body \o <<"\n">>

RECURSIVE RenderBlocks(_, _)
RenderBlocks(names, i) ==
    IF i > Len(names) THEN <<>>
    ELSE <<"\n">> \o RequirementBlock(names[i], BodyOf(i)) \o RenderBlocks(names, i + 1)

\* a baseline document: a title line, then the requirement blocks, each
\* after a blank line
RenderBaseline(names) == <<"t", "\n">> \o RenderBlocks(names, 1)

NameLists ==
    UNION {{ns \in [1..n -> BaselineNames] : \A i, j \in 1..n : i # j => ns[i] # ns[j]}
           : n \in 0..MaxReqs}

Baselines == {RenderBaseline(ns) : ns \in NameLists}

\* the entries a delta document is made of: a block under ADDED, MODIFIED
\* or REMOVED, or a FROM/TO pair under RENAMED
BlockEntry(kind, name, body) == [kind |-> kind, name |-> name, body |-> body, to |-> <<>>]
RenamedEntry(from, to) == [kind |-> "renamed", name |-> from, body |-> <<>>, to |-> to]

\* one replacement body holds the "$&" of a replacement string
DeltaEntries ==
    { BlockEntry("added", NameB, <<"n">>),
      BlockEntry("modified", NameA, <<"n">>),
      BlockEntry("modified", NameA, <<"$", "&">>),
      BlockEntry("removed", NameA, <<"REASON", " ", "r">>),
      BlockEntry("removed", NameB, <<"REASON", " ", "r">>),
      RenamedEntry(NameA, NameAB),
      RenamedEntry(NameB, NameC) }

SectionHeading(kind) ==
    IF kind = "added" THEN <<"ADDED">>
    ELSE IF kind = "modified" THEN <<"MODIFIED">>
    ELSE IF kind = "removed" THEN <<"REMOVED">>
    ELSE <<"RENAMED">>

RenderEntry(e) ==
    IF e.kind = "renamed"
    THEN <<"FROM", " ", "BQ">> \o Heading(e.name) \o <<"BQ", "\n">>
         \o <<"TO", " ", "BQ">> \o Heading(e.to) \o <<"BQ", "\n">>
    ELSE RequirementBlock(e.name, e.body)

\* a delta document: each entry under the heading of its section, the
\* heading written where the section changes, a blank line after each entry
RECURSIVE RenderDelta(_, _)
RenderDelta(es, i) ==
    IF i > Len(es) THEN <<>>
    ELSE (IF i = 1 \/ es[i - 1].kind # es[i].kind
          THEN SectionHeading(es[i].kind) \o <<"\n", "\n">> ELSE <<>>)
         \o RenderEntry(es[i]) \o <<"\n">> \o RenderDelta(es, i + 1)

EntryLists == UNION {[1..n -> DeltaEntries] : n \in 1..MaxOps}

\* what specs/<capability>/spec.md of a change can hold: a delta document,
\* or a plain specification without section markers
PlainDocuments ==
    LET specs == Baselines \ {RenderBaseline(<<>>)}
    IN  specs \cup {t \o <<"\n">> : t \in specs}

DeltaDocuments == {RenderDelta(es, 1) : es \in EntryLists} \cup PlainDocuments

\* ------------------------------------------------------------------- state
VARIABLES
    delta,          \* the text of the change's specs/<capability>/spec.md
    mainSpec,       \* superspec/specs/<capability>/spec.md: [exists, content]
    baseline,       \* mainSpec as it was when the command started
    pc,             \* where applyDeltas stands for this capability
    operations,     \* parseDeltaOperations(content)
    sorted,         \* the sorted copy of operations
    idx,            \* index into sorted of the next operation
    mainContent,    \* applyDeltaToMainSpec's accumulating text
    prev,           \* mainContent before the operation applied last
    log             \* the lines console.log printed, in order

mergeVars == <<delta, mainSpec, baseline, pc, operations, sorted, idx, mainContent, prev, log>>

\* the parsers, the serializer and the validator, applied to one document
VARIABLES
    origin,         \* what the run starts from: "text", "model", or "none"
    doc,            \* the input text
    stage,          \* which of parse, serialize, parse again has been done
    parsed,         \* parseSpec(doc), or the Spec value the run starts from
    serialized,     \* serializeSpec(parsed)
    reparsed,       \* parseSpec(serialized)
    isDelta,        \* validateSpec's third argument
    result,         \* what validateSpec returned
    specs,          \* validateSpecSet's argument: name and content, in Map order
    setResult       \* what validateSpecSet returned

textVars == <<origin, doc, stage, parsed, serialized, reparsed, isDelta, result, specs, setResult>>

\* the archive command, over the capabilities of one change
VARIABLES
    apc,            \* where archiveCommand stands
    options,        \* the command's options: yes, skipSpecs
    change,         \* what the change directory held at the start
    capabilities,   \* the entries of the change's specs directory, in readdir order
    capIdx,         \* applyDeltas' position in capabilities
    mainSpecs,      \* superspec/specs/<capability>/spec.md, per capability
    changeEntries,  \* the entries the change directory still holds
    archiveEntries, \* the entries copied to the archive directory
    exitCode,       \* the code process.exit was called with, or "none"
    confirmed       \* the answer to "Proceed with archive?": "unasked", "yes" or "no"

archiveVars == <<apc, options, change, capabilities, capIdx, mainSpecs, changeEntries,
                 archiveEntries, exitCode, confirmed>>

vars == <<mergeVars, textVars, archiveVars>>

\* the state of the variables a specification does not use
NoDocument ==
    /\ origin = "none"
    /\ doc = <<>>
    /\ stage = "none"
    /\ parsed = <<>>
    /\ serialized = <<>>
    /\ reparsed = <<>>
    /\ isDelta = FALSE
    /\ result = <<>>
    /\ specs = <<>>
    /\ setResult = <<>>

NoCommand ==
    /\ apc = "none"
    /\ options = <<>>
    /\ change = <<>>
    /\ capabilities = <<>>
    /\ capIdx = 1
    /\ mainSpecs = <<>>
    /\ changeEntries = {}
    /\ archiveEntries = {}
    /\ exitCode = "none"
    /\ confirmed = "unasked"

NoFile == [exists |-> FALSE, content |-> <<>>]
File(text) == [exists |-> TRUE, content |-> text]

Init ==
    /\ delta \in DeltaDocuments
    /\ mainSpec \in {NoFile} \cup {File(t) : t \in Baselines}
    /\ baseline = mainSpec
    /\ pc = "start"
    /\ operations = <<>>
    /\ sorted = <<>>
    /\ idx = 1
    /\ mainContent = <<>>
    /\ prev = <<>>
    /\ log = <<>>
    /\ NoDocument
    /\ NoCommand

\* applyDeltas: readFileSync(deltaSpecPath) and parseDeltaOperations
ReadDelta ==
    /\ pc = "start"
    /\ operations' = ParseDeltaOperations(delta)
    /\ pc' = "parsed"
    /\ UNCHANGED <<delta, mainSpec, baseline, sorted, idx, mainContent, prev, log>>
    /\ UNCHANGED <<textVars, archiveVars>>

\* a copy that normalises the text as the merge's write does
CopyNewSpecNormalised ==
    /\ pc = "parsed"
    /\ Len(operations) = 0
    /\ mainSpec' = File(Trim(delta) \o <<"\n">>)
    /\ pc' = "done"
    /\ UNCHANGED <<delta, baseline, operations, sorted, idx, mainContent, prev, log>>
    /\ UNCHANGED <<textVars, archiveVars>>

\* applyDeltas, operations.length = 0: copyFileSync(deltaSpecPath, targetPath)
CopyNewSpec ==
    /\ pc = "parsed"
    /\ Len(operations) = 0
    /\ mainSpec' = File(delta)
    /\ pc' = "done"
    /\ UNCHANGED <<delta, baseline, operations, sorted, idx, mainContent, prev, log>>
    /\ UNCHANGED <<textVars, archiveVars>>

\* applyDeltaToMainSpec up to the loop: read the main spec, sort
BeginMerge ==
    /\ pc = "parsed"
    /\ Len(operations) > 0
    /\ mainContent' = IF mainSpec.exists THEN mainSpec.content ELSE <<>>
    /\ prev' = mainContent'
    /\ sorted' = SortOperations(operations)
    /\ idx' = 1
    /\ pc' = "apply"
    /\ UNCHANGED <<delta, mainSpec, baseline, operations, log>>
    /\ UNCHANGED <<textVars, archiveVars>>

\* one iteration of the loop, case 'renamed'
StepRenamed ==
    /\ pc = "apply"
    /\ idx <= Len(sorted)
    /\ sorted[idx].type = "renamed"
    /\ prev' = mainContent
    /\ mainContent' = ApplyRenamed(mainContent, sorted[idx])
    /\ log' = log \o LogLine(sorted[idx])
    /\ idx' = idx + 1
    /\ UNCHANGED <<delta, mainSpec, baseline, pc, operations, sorted>>
    /\ UNCHANGED <<textVars, archiveVars>>

\* one iteration of the loop, case 'removed'
StepRemoved ==
    /\ pc = "apply"
    /\ idx <= Len(sorted)
    /\ sorted[idx].type = "removed"
    /\ prev' = mainContent
    /\ mainContent' = ApplyRemoved(mainContent, sorted[idx])
    /\ log' = log \o LogLine(sorted[idx])
    /\ idx' = idx + 1
    /\ UNCHANGED <<delta, mainSpec, baseline, pc, operations, sorted>>
    /\ UNCHANGED <<textVars, archiveVars>>

\* one iteration of the loop, case 'modified'
StepModified ==
    /\ pc = "apply"
    /\ idx <= Len(sorted)
    /\ sorted[idx].type = "modified"
    /\ prev' = mainContent
    /\ mainContent' = ApplyModified(mainContent, sorted[idx])
    /\ log' = log \o LogLine(sorted[idx])
    /\ idx' = idx + 1
    /\ UNCHANGED <<delta, mainSpec, baseline, pc, operations, sorted>>
    /\ UNCHANGED <<textVars, archiveVars>>

\* one iteration of the loop, case 'added'
StepAdded ==
    /\ pc = "apply"
    /\ idx <= Len(sorted)
    /\ sorted[idx].type = "added"
    /\ prev' = mainContent
    /\ mainContent' = ApplyAdded(mainContent, sorted[idx])
    /\ log' = log \o LogLine(sorted[idx])
    /\ idx' = idx + 1
    /\ UNCHANGED <<delta, mainSpec, baseline, pc, operations, sorted>>
    /\ UNCHANGED <<textVars, archiveVars>>

\* after the loop: writeFileSync(mainSpecPath, mainContent.trim() + '\n')
WriteMainSpec ==
    /\ pc = "apply"
    /\ idx > Len(sorted)
    /\ mainSpec' = File(WrittenText(mainContent))
    /\ pc' = "done"
    /\ UNCHANGED <<delta, baseline, operations, sorted, idx, mainContent, prev, log>>
    /\ UNCHANGED <<textVars, archiveVars>>

Next ==
    \/ ReadDelta
    \/ CopyNewSpec
    \/ BeginMerge
    \/ StepRenamed
    \/ StepRemoved
    \/ StepModified
    \/ StepAdded
    \/ WriteMainSpec

Spec == Init /\ [][Next]_vars

\* ------------------------------------------- the requirements a text holds
\* the requirement blocks of a text: each runs from a "### Requirement:" to
\* just before the next one, or to the end of the text
RECURSIVE Blocks(_)
Blocks(s) ==
    LET hs == {i \in 1..Len(s) : s[i] = "H"}
    IN  IF hs = {} THEN <<>>
        ELSE LET i     == MinOf(hs)
                 later == hs \ {i}
                 j     == IF later = {} THEN Len(s) + 1 ELSE MinOf(later)
             IN  <<SubSeq(s, i, j - 1)>> \o Blocks(SubSeq(s, j, Len(s)))

\* the blocks without the white space that separates them from what follows
TrimmedBlocks(s) == [i \in 1..Len(Blocks(s)) |-> TrimEnd(Blocks(s)[i])]

\* the name in a block's heading line
BlockName(b) ==
    LET nl == {i \in 1..Len(b) : b[i] = "\n"}
        e  == IF nl = {} THEN Len(b) ELSE MinOf(nl) - 1
    IN  IF Len(b) >= 2 /\ b[2] = " " THEN SubSeq(b, 3, e) ELSE <<>>

BlockNames(s) == {BlockName(Blocks(s)[i]) : i \in 1..Len(Blocks(s))}

RECURSIVE IsSubsequence(_, _)
IsSubsequence(u, v) ==
    IF u = <<>> THEN TRUE
    ELSE IF v = <<>> THEN FALSE
    ELSE IF u[1] = v[1] THEN IsSubsequence(Tail(u), Tail(v))
    ELSE IsSubsequence(u, Tail(v))

\* the text applyDeltaToMainSpec starts from
BaselineText == IF baseline.exists THEN baseline.content ELSE <<>>

\* the merge of this run has written the main spec
Merged == pc = "done" /\ Len(operations) > 0

\* the loop has applied at least one operation; LastOp is the latest one,
\* prev the text before it and mainContent the text after it
Stepped == pc \in {"apply", "done"} /\ idx > 1
LastOp == sorted[idx - 1]

\* ------------------------------------------------------------------ claims
\* the names a batch of operations is aimed at
OperationTargets ==
    {operations[i].fromName : i \in {k \in 1..Len(operations) : operations[k].type = "renamed"}}
    \cup {operations[i].requirement :
            i \in {k \in 1..Len(operations) : operations[k].type \in {"removed", "modified"}}}

UntouchedBlocks ==
    SelectSeq(TrimmedBlocks(BaselineText), LAMBDA b : BlockName(b) \notin OperationTargets)

\* C1: after the merge every baseline requirement that no operation names
\* (as a rename source, a removed name or a modified name) is in the written
\* text with its heading and body unchanged, in the baseline's relative order.
C1_UntouchedPreserved ==
    Merged => IsSubsequence(UntouchedBlocks, TrimmedBlocks(mainSpec.content))

OfType(ops, type) == SelectSeq(ops, LAMBDA op : op.type = type)

RECURSIVE LogLines(_)
LogLines(ops) == IF ops = <<>> THEN <<>> ELSE LogLine(ops[1]) \o LogLines(Tail(ops))

\* C2: the merge applies the operations in the order renamed, removed,
\* modified, added whatever their order in the delta, and the operations of
\* one kind in their declared order.
C2_AppliedInPrecedenceOrder ==
    pc \in {"apply", "done"} =>
        /\ Len(sorted) = Len(operations)
        /\ \A i, j \in 1..Len(sorted) : i < j => Order(sorted[i].type) <= Order(sorted[j].type)
        /\ \A type \in {"renamed", "removed", "modified", "added"} :
              OfType(sorted, type) = OfType(operations, type)
        /\ log = LogLines(SubSeq(sorted, 1, idx - 1))

\* C2 witness: a batch whose operations were not declared in the order of
\* precedence has been merged, every operation applied
C2_Witness ==
    /\ Merged
    /\ \E i, j \in 1..Len(operations) :
          i < j /\ Order(operations[i].type) > Order(operations[j].type)
    /\ Len(log) = Len(operations)

\* the requirement heading lines of a delta text outside a RENAMED section,
\* each with the section heading that precedes it most closely
RECURSIVE DeclaredBlocks(_, _)
DeclaredBlocks(lines, section) ==
    IF lines = <<>> THEN <<>>
    ELSE IF SectionOf(lines[1]) # "none" THEN DeclaredBlocks(Tail(lines), SectionOf(lines[1]))
    ELSE IF ReqMatch(lines[1]) # <<>> /\ section \in {"added", "modified", "removed"}
         THEN <<[type |-> section, requirement |-> ReqMatch(lines[1])]>>
              \o DeclaredBlocks(Tail(lines), section)
    ELSE DeclaredBlocks(Tail(lines), section)

BlockOperations ==
    LET ops == SelectSeq(operations, LAMBDA op : op.fromName = <<>>)
    IN  [i \in 1..Len(ops) |-> [type |-> ops[i].type, requirement |-> ops[i].requirement]]

\* C3: the operation built for a requirement block has the kind of the
\* section the block is declared under, also when another section heading
\* follows the block before the next requirement heading.
C3_KindIsDeclaredSection ==
    pc # "start" => BlockOperations = DeclaredBlocks(SplitLines(delta), "none")

\* C4: a REMOVED operation naming X, applied to a text that holds requirement
\* X, leaves exactly the other requirements, unchanged and in their order.
C4_RemovedLeavesTheOthers ==
    (Stepped /\ LastOp.type = "removed" /\ LastOp.requirement \in BlockNames(prev)) =>
        TrimmedBlocks(mainContent)
            = SelectSeq(TrimmedBlocks(prev), LAMBDA b : BlockName(b) # LastOp.requirement)

\* C5: a MODIFIED operation naming X puts the delta's replacement content,
\* trimmed and otherwise as supplied, in the place of every block of X; the
\* number and the positions of the requirements stay as they were.
C5_ModifiedReplacesBlock ==
    (Stepped /\ LastOp.type = "modified" /\ LastOp.requirement \in BlockNames(prev)) =>
        /\ Len(Blocks(mainContent)) = Len(Blocks(prev))
        /\ \A i \in 1..Len(Blocks(prev)) :
              BlockName(Blocks(prev)[i]) = LastOp.requirement
                  => TrimmedBlocks(mainContent)[i] = Trim(LastOp.content)

\* the text ends with a blank line followed by block and one newline
EndsWithSeparated(text, block) ==
    LET tail == <<"\n", "\n">> \o block \o <<"\n">>
    IN  StartsWithAt(text, tail, Len(text) + 1 - Len(tail))

\* C6: an ADDED operation puts its block, trimmed, after all the content
\* there is, behind a blank line; the requirements before it stay as they
\* were and precede it.  A merge of ADDED operations alone writes the
\* baseline's blocks followed by the added blocks, ending in one newline.
C6_AddedAppends ==
    /\ (Stepped /\ LastOp.type = "added") =>
          /\ TrimmedBlocks(mainContent) = TrimmedBlocks(prev) \o <<Trim(LastOp.content)>>
          /\ TrimEnd(prev) # <<>> => EndsWithSeparated(mainContent, Trim(LastOp.content))
          /\ TrimEnd(prev) # <<>> =>
                StartsWithAt(mainContent, TrimEnd(prev), 1)
    /\ (Merged /\ OfType(operations, "added") = operations) =>
          /\ TrimmedBlocks(mainSpec.content)
                = TrimmedBlocks(BaselineText)
                  \o [i \in 1..Len(operations) |-> Trim(operations[i].content)]
          /\ mainSpec.content[Len(mainSpec.content)] = "\n"
          /\ ~IsWs(mainSpec.content[Len(mainSpec.content) - 1])

\* C6 witness: an ADDED block named b has been merged into a baseline whose
\* only requirement is a, and both blocks are in the written text
C6_Witness ==
    /\ Merged
    /\ Len(operations) = 1
    /\ operations[1].type = "added"
    /\ operations[1].requirement = NameB
    /\ BlockNames(BaselineText) = {NameA}
    /\ Len(Blocks(mainSpec.content)) = 2

\* the literal heading of the operation's target: the rename source for a
\* rename, the requirement name for the other kinds
TargetHeading(op) == Heading(IF op.type = "renamed" THEN op.fromName ELSE op.requirement)

TargetMissing == IndexOf(prev, TargetHeading(LastOp), 1) = 0

C8_NoLeadingOneTrailing ==
    Merged =>
        /\ ~IsWs(mainSpec.content[1])
        /\ mainSpec.content[Len(mainSpec.content)] = "\n"
        /\ Len(mainSpec.content) >= 2 => ~IsWs(mainSpec.content[Len(mainSpec.content) - 1])

\* C8 amended: the written text ends with exactly one newline and, unless
\* the merged content is blank, starts with a character that is not white
\* space; blank merged content is written as the single newline.
C8_TrimmedOneTrailing ==
    Merged =>
        IF NonWsIdx(mainContent) = {}
        THEN mainSpec.content = <<"\n">>
        ELSE /\ ~IsWs(mainSpec.content[1])
             /\ mainSpec.content[Len(mainSpec.content)] = "\n"
             /\ ~IsWs(mainSpec.content[Len(mainSpec.content) - 1])
             /\ NonWsIdx(mainSpec.content) # {}

\* C8 witness: the merge has written a text whose in-memory form ended in
\* more than one newline
C8_Witness ==
    /\ Merged
    /\ Len(mainContent) >= 2
    /\ mainContent[Len(mainContent)] = "\n"
    /\ mainContent[Len(mainContent) - 1] = "\n"

\* C9: applying a RENAMED, REMOVED or MODIFIED operation again to the text
\* that already has it merged gives that same text.
C9_ReapplyIsIdentity ==
    (Stepped /\ LastOp.type \in {"renamed", "removed", "modified"}) =>
        ApplyOperation(mainContent, LastOp) = mainContent

HasSectionMarker(text) ==
    \E i \in 1..Len(SplitLines(text)) : SectionOf(SplitLines(text)[i]) # "none"

\* C10: with no baseline document and a delta document without section
\* markers, the delta document's text becomes the baseline, verbatim.
C10_PlainSpecCopied ==
    (pc = "done" /\ ~baseline.exists /\ ~HasSectionMarker(delta)) => mainSpec = File(delta)

\* C10 witness: a plain document that ends in a blank line has become the
\* baseline of a capability that had none
C10_Witness ==
    /\ pc = "done"
    /\ ~baseline.exists
    /\ ~HasSectionMarker(delta)
    /\ mainSpec.exists
    /\ delta # WrittenText(delta)

\* ================================================== the specification parser
\* Further literal texts, each one token: "#" "-" "/" are the characters;
\* "S" is "#### Scenario:", "PURPOSE" is "## Purpose", "REQUIREMENTS" is
\* "## Requirements", "WHEN" "THEN" "AND" are the keywords between their
\* asterisks, "SPECIFICATION" is the word "Specification" in any case, "FM"
\* is the front-matter delimiter "---", "YAML" is a line of well-formed YAML
\* and "BADYAML" a line the YAML engine rejects.

\* line.match(/^# (.+)$/)?.[1], <<>> when there is no match
TitleMatch(line) ==
    IF Len(line) >= 3 /\ line[1] = "#" /\ line[2] = " "
    THEN SubSeq(line, 3, Len(line)) ELSE <<>>

\* str.replace(/\s*Specification\s*$/i, ''): the word that only whitespace
\* follows goes, with the whitespace around it
StripSpecification(str) ==
    LET ends == {k \in 1..Len(str) :
                   /\ str[k] = "SPECIFICATION"
                   /\ \A j \in (k + 1)..Len(str) : IsWs(str[j])}
    IN  IF ends = {} THEN str
        ELSE LET k == MaxOf(ends)
             IN  TrimEnd(SubSeq(str, 1, k - 1))

\* line.match(/^## Purpose\s*$/) with kw = "PURPOSE", and
\* line.match(/^## Requirements\s*$/) with kw = "REQUIREMENTS"
SectionLineMatch(line, kw) ==
    /\ line # <<>>
    /\ line[1] = kw
    /\ \A j \in 2..Len(line) : IsWs(line[j])

\* line.match(/^#### Scenario: (.+)$/)?.[1], <<>> when there is no match
ScenarioMatch(line) ==
    IF Len(line) >= 3 /\ line[1] = "S" /\ line[2] = " "
    THEN SubSeq(line, 3, Len(line)) ELSE <<>>

\* the index of the keyword in a line of the shape /^\s*-\s*\*\*KW\*\*/,
\* 0 when the line has another shape
KeywordAt(line, kw) ==
    LET nonWs == NonWsIdx(line)
    IN  IF nonWs = {} THEN 0
        ELSE LET d    == MinOf(nonWs)
                 rest == {i \in nonWs : i > d}
             IN  IF line[d] # "-" \/ rest = {} THEN 0
                 ELSE IF line[MinOf(rest)] = kw THEN MinOf(rest) ELSE 0

\* line.match(/^\s*-\s*\*\*KW\*\*\s*(.+)$/)?.[1], <<>> when there is no
\* match: the greedy \s* gives back its last character when nothing else is
\* left for (.+)
ClauseMatch(line, kw) ==
    LET k == KeywordAt(line, kw)
    IN  IF k = 0 \/ k = Len(line) THEN <<>>
        ELSE LET rest == SubSeq(line, k + 1, Len(line))
             IN  IF NonWsIdx(rest) = {} THEN SubSeq(rest, Len(rest), Len(rest))
                 ELSE TrimStart(rest)

NewScenario(name) == [name |-> name, when |-> <<>>, then |-> <<>>, and |-> <<>>]
NewRequirement(name) == [name |-> name, description |-> <<>>, scenarios |-> <<>>]

\* matter(content) of gray-matter: a document whose first line is the
\* delimiter has a front-matter block, up to the next delimiter line or to
\* the end; the YAML engine's exception on a malformed block is not caught
Matter(content) ==
    LET lines == SplitLines(content)
    IN  IF lines[1] # <<"FM">>
        THEN [threw |-> FALSE, data |-> <<>>, content |-> content]
        ELSE LET closes == {i \in 2..Len(lines) : lines[i] = <<"FM">>}
                 close  == IF closes = {} THEN Len(lines) + 1 ELSE MinOf(closes)
                 block  == SubSeq(lines, 2, close - 1)
             IN  IF \E i \in 1..Len(block) : block[i] = <<"BADYAML">>
                 THEN [threw |-> TRUE, data |-> <<>>, content |-> <<>>]
                 ELSE [threw |-> FALSE,
                       data |-> SelectSeq(block, LAMBDA l : l = <<"YAML">>),
                       content |-> IF close >= Len(lines) THEN <<>>
                                   ELSE JoinLines(SubSeq(lines, close + 1, Len(lines)))]

\* descriptionLines.join('\n').trim()
Description(descriptionLines) == Trim(JoinLines(descriptionLines))

\* parseSpec's variables before the first line; currentRequirement and
\* currentScenario are sequences of length 0 (null) or 1
ParseSpecStart ==
    [title |-> <<>>, requirements |-> <<>>, currentRequirement |-> <<>>,
     currentScenario |-> <<>>, inDescription |-> FALSE, descriptionLines |-> <<>>]

\* the requirement heading's branch of parseSpec's loop
ParseRequirementLine(st, name) ==
    LET saved == IF st.currentRequirement = <<>> THEN st.requirements
                 ELSE Append(st.requirements,
                             [st.currentRequirement[1] EXCEPT
                                !.scenarios = @ \o st.currentScenario,
                                !.description = Description(st.descriptionLines)])
    IN  [st EXCEPT !.requirements = saved,
                   !.currentRequirement = <<NewRequirement(name)>>,
                   !.currentScenario = <<>>,
                   !.inDescription = TRUE,
                   !.descriptionLines = <<>>]

\* the scenario heading's branch of parseSpec's loop
ParseScenarioLine(st, name) ==
    LET req == IF st.currentRequirement = <<>> THEN <<>>
               ELSE <<[st.currentRequirement[1] EXCEPT
                         !.scenarios = @ \o st.currentScenario,
                         !.description = IF st.inDescription
                                         THEN Description(st.descriptionLines) ELSE @]>>
    IN  [st EXCEPT !.currentRequirement = req,
                   !.currentScenario = <<NewScenario(name)>>,
                   !.inDescription = IF st.currentRequirement # <<>> THEN FALSE ELSE @]

\* the WHEN branch: currentScenario.when = whenMatch[1]
ParseWhenLine(st, clause) ==
    [st EXCEPT !.currentScenario = <<[st.currentScenario[1] EXCEPT !.when = clause]>>]

\* a THEN branch that puts the clause in front of the earlier ones
ParseThenLineInFront(st, clause) ==
    [st EXCEPT !.currentScenario = <<[st.currentScenario[1] EXCEPT !.then = <<clause>> \o @]>>]

\* the THEN branch: currentScenario.then.push(thenMatch[1])
ParseThenLine(st, clause) ==
    [st EXCEPT !.currentScenario = <<[st.currentScenario[1] EXCEPT !.then = Append(@, clause)]>>]

\* the AND branch: currentScenario.and.push(andMatch[1])
ParseAndLine(st, clause) ==
    [st EXCEPT !.currentScenario = <<[st.currentScenario[1] EXCEPT !.and = Append(@, clause)]>>]

\* one iteration of parseSpec's loop
ParseSpecLine(st, line) ==
    IF TitleMatch(line) # <<>>
    THEN [st EXCEPT !.title = Trim(StripSpecification(TitleMatch(line)))]
    ELSE IF SectionLineMatch(line, "PURPOSE") \/ SectionLineMatch(line, "REQUIREMENTS")
    THEN [st EXCEPT !.inDescription = FALSE]
    ELSE IF ReqMatch(line) # <<>> THEN ParseRequirementLine(st, ReqMatch(line))
    ELSE IF ScenarioMatch(line) # <<>> THEN ParseScenarioLine(st, ScenarioMatch(line))
    ELSE IF ClauseMatch(line, "WHEN") # <<>> /\ st.currentScenario # <<>>
    THEN ParseWhenLine(st, ClauseMatch(line, "WHEN"))
    ELSE IF ClauseMatch(line, "THEN") # <<>> /\ st.currentScenario # <<>>
    THEN ParseThenLine(st, ClauseMatch(line, "THEN"))
    ELSE IF ClauseMatch(line, "AND") # <<>> /\ st.currentScenario # <<>>
    THEN ParseAndLine(st, ClauseMatch(line, "AND"))
    ELSE IF st.inDescription /\ Trim(line) # <<>>
    THEN [st EXCEPT !.descriptionLines = Append(@, line)]
    ELSE st

RECURSIVE ParseSpecLines(_, _)
ParseSpecLines(st, lines) ==
    IF lines = <<>> THEN st
    ELSE ParseSpecLines(ParseSpecLine(st, Head(lines)), Tail(lines))

\* an end of input that leaves out the scenario still open
ParseSpecFinishWithoutScenario(st) ==
    IF st.currentRequirement = <<>> THEN st.requirements
    ELSE Append(st.requirements,
                [st.currentRequirement[1] EXCEPT
                   !.description = IF st.inDescription
                                   THEN Description(st.descriptionLines) ELSE @])

\* what parseSpec does after the loop
ParseSpecFinish(st) ==
    IF st.currentRequirement = <<>> THEN st.requirements
    ELSE Append(st.requirements,
                [st.currentRequirement[1] EXCEPT
                   !.scenarios = @ \o st.currentScenario,
                   !.description = IF st.inDescription
                                   THEN Description(st.descriptionLines) ELSE @])

\* a Spec value; threw is set on the value that stands for an exception
SpecValue(title, purpose, requirements, metadata) ==
    [threw |-> FALSE, title |-> title, purpose |-> purpose,
     requirements |-> requirements, metadata |-> metadata]

Thrown == [threw |-> TRUE, title |-> <<>>, purpose |-> <<>>,
           requirements |-> <<>>, metadata |-> <<>>]

\* parseSpec(content)
ParseSpec(content) ==
    LET m == Matter(content)
    IN  IF m.threw THEN Thrown
        ELSE LET st == ParseSpecLines(ParseSpecStart, SplitLines(m.content))
             IN  SpecValue(st.title, <<>>, ParseSpecFinish(st), m.data)

\* the lines serializeSpec pushes for one scenario
RECURSIVE ClauseLines(_, _)
ClauseLines(kw, clauses) ==
    IF clauses = <<>> THEN <<>>
    ELSE <<<<"-", " ", kw, " ">> \o Head(clauses)>> \o ClauseLines(kw, Tail(clauses))

SerializeScenario(scenario) ==
    <<<<"S", " ">> \o scenario.name, <<"-", " ", "WHEN", " ">> \o scenario.when>>
    \o ClauseLines("THEN", scenario.then) \o ClauseLines("AND", scenario.and)
    \o <<<<>>>>

RECURSIVE SerializeScenarios(_)
SerializeScenarios(scenarios) ==
    IF scenarios = <<>> THEN <<>>
    ELSE SerializeScenario(Head(scenarios)) \o SerializeScenarios(Tail(scenarios))

\* the lines serializeSpec pushes for one requirement
SerializeRequirement(req) ==
    <<Heading(req.name), <<>>>>
    \o (IF req.description # <<>> THEN <<req.description, <<>>>> ELSE <<>>)
    \o SerializeScenarios(req.scenarios)

RECURSIVE SerializeRequirements(_)
SerializeRequirements(reqs) ==
    IF reqs = <<>> THEN <<>>
    ELSE SerializeRequirement(Head(reqs)) \o SerializeRequirements(Tail(reqs))

\* serializeSpec(spec)
SerializeSpec(spec) ==
    JoinLines(<<<<"#", " ">> \o spec.title \o <<" ", "SPECIFICATION">>, <<>>>>
              \o (IF spec.purpose # <<>>
                  THEN <<<<"PURPOSE">>, <<>>, spec.purpose, <<>>>> ELSE <<>>)
              \o <<<<"REQUIREMENTS">>, <<>>>>
              \o SerializeRequirements(spec.requirements))

\* ------------------------------------------------- the documents of a run
MaxLines == 4
MaxSpecReqs == 2

NameSlash == <<"a", "/", "b">>
ScenarioB == <<"b">>
ScenarioSlash == <<"b", "/", "b">>
ClauseX == <<"x">>
ClauseY == <<"y", " ", "x">>

\* the lines a document is made of: two title lines, requirement and
\* scenario headings, clause lines and a line of prose
DocumentLines ==
    { <<"#", " ", "x">>,
      <<"#", " ", "y", " ", "SPECIFICATION">>,
      Heading(NameA),
      Heading(NameSlash),
      <<"S", " ">> \o ScenarioB,
      <<"-", " ", "WHEN", " ">> \o ClauseX,
      <<"-", " ", "WHEN", " ">> \o ClauseY,
      <<"-", " ", "THEN", " ">> \o ClauseX,
      <<"x">> }

LineLists == UNION {[1..n -> DocumentLines] : n \in 0..MaxLines}

\* a leading front-matter block, well-formed or not
FrontMatters ==
    { <<<<"FM">>, <<"YAML">>, <<"FM">>>>,
      <<<<"FM">>, <<"BADYAML">>, <<"FM">>>> }

\* the texts parseSpec is given: lines, each ended by a newline, some after
\* a front-matter block
Documents ==
    {JoinLines(ls \o <<<<>>>>) : ls \in LineLists}
    \cup {JoinLines(fm \o <<l, <<>>>>) : fm \in FrontMatters, l \in DocumentLines}

\* Spec values built directly: every name and clause is non-empty text
\* without surrounding whitespace, every scenario has a when and a then
ScenarioOne == [name |-> ScenarioB, when |-> ClauseX, then |-> <<ClauseX>>, and |-> <<>>]
ScenarioTwo ==
    [name |-> ScenarioSlash, when |-> ClauseY, then |-> <<ClauseX, ClauseY>>,
     and |-> <<ClauseX>>]

ScenarioLists ==
    {<<>>, <<ScenarioOne>>, <<ScenarioOne, ScenarioTwo>>, <<ScenarioTwo, ScenarioOne>>}

RequirementValues ==
    {[name |-> n, description |-> d, scenarios |-> ss] :
        n \in {NameA, NameSlash}, d \in {<<>>, <<"x">>}, ss \in ScenarioLists}

SpecValues ==
    {SpecValue(t, p, rs, <<>>) :
        t \in {<<"x">>, <<"y", " ", "SPECIFICATION">>},
        p \in {<<>>, <<"p">>},
        rs \in UNION {[1..n -> RequirementValues] : n \in 0..MaxSpecReqs}}

\* ------------------------------------------ parse, serialize, parse again
InitParse ==
    /\ \/ /\ origin = "text"
          /\ doc \in Documents
          /\ stage = "input"
          /\ parsed = <<>>
       \/ /\ origin = "model"
          /\ doc = <<>>
          /\ stage = "parsed"
          /\ parsed \in SpecValues
    /\ serialized = <<>>
    /\ reparsed = <<>>
    /\ isDelta = FALSE
    /\ result = <<>>
    /\ specs = <<>>
    /\ setResult = <<>>
    /\ delta = <<>>
    /\ mainSpec = NoFile
    /\ baseline = NoFile
    /\ pc = "none"
    /\ operations = <<>>
    /\ sorted = <<>>
    /\ idx = 1
    /\ mainContent = <<>>
    /\ prev = <<>>
    /\ log = <<>>
    /\ NoCommand

\* parseSpec(doc)
ParseDocument ==
    /\ stage = "input"
    /\ parsed' = ParseSpec(doc)
    /\ stage' = "parsed"
    /\ UNCHANGED <<origin, doc, serialized, reparsed, isDelta, result, specs, setResult>>
    /\ UNCHANGED <<mergeVars, archiveVars>>

\* serializeSpec(parsed)
SerializeParsed ==
    /\ stage = "parsed"
    /\ ~parsed.threw
    /\ serialized' = SerializeSpec(parsed)
    /\ stage' = "serialized"
    /\ UNCHANGED <<origin, doc, parsed, reparsed, isDelta, result, specs, setResult>>
    /\ UNCHANGED <<mergeVars, archiveVars>>

\* parseSpec(serialized)
ParseSerialized ==
    /\ stage = "serialized"
    /\ reparsed' = ParseSpec(serialized)
    /\ stage' = "reparsed"
    /\ UNCHANGED <<origin, doc, parsed, serialized, isDelta, result, specs, setResult>>
    /\ UNCHANGED <<mergeVars, archiveVars>>

NextParse ==
    \/ ParseDocument
    \/ SerializeParsed
    \/ ParseSerialized

SpecParse == InitParse /\ [][NextParse]_vars

\* ------------------------------------------------ what a parse is compared by
\* the scenarios of a parse, in order, across its requirements
RECURSIVE AllScenarios(_)
AllScenarios(reqs) ==
    IF reqs = <<>> THEN <<>> ELSE Head(reqs).scenarios \o AllScenarios(Tail(reqs))

\* same title, same requirement names in the same order, same scenarios
\* in the same order with the same when, then and and
SameStructure(x, y) ==
    /\ x.title = y.title
    /\ Len(x.requirements) = Len(y.requirements)
    /\ \A i \in 1..Len(x.requirements) :
          /\ x.requirements[i].name = y.requirements[i].name
          /\ x.requirements[i].scenarios = y.requirements[i].scenarios

\* SameStructure, and the same description for every requirement
StructurallyEqual(x, y) ==
    /\ x.title = y.title
    /\ x.requirements = y.requirements

\* the lines of the document's body, after the front matter
BodyLines == SplitLines(Matter(doc).content)

\* the scenario headings that follow the first requirement heading: the
\* ones whose scenarios a parse holds, in order
KeptScenarioLines(lines) ==
    LET reqs == {i \in 1..Len(lines) : TitleMatch(lines[i]) = <<>> /\ ReqMatch(lines[i]) # <<>>}
    IN  {i \in 1..Len(lines) :
           /\ reqs # {}
           /\ i > MinOf(reqs)
           /\ ScenarioMatch(lines[i]) # <<>>}

\* the lines from a scenario heading to the next scenario or requirement
\* heading, or to the end
SpanOf(lines, i) ==
    LET stops == {j \in (i + 1)..Len(lines) :
                    ReqMatch(lines[j]) # <<>> \/ ScenarioMatch(lines[j]) # <<>>}
    IN  (i + 1)..(IF stops = {} THEN Len(lines) ELSE MinOf(stops) - 1)

\* the k-th smallest element of a set of numbers
RECURSIVE Nth(_, _)
Nth(S, k) == IF k = 1 THEN MinOf(S) ELSE Nth(S \ {MinOf(S)}, k - 1)

C13_TextRoundTrip ==
    (origin = "text" /\ stage = "reparsed") => StructurallyEqual(parsed, reparsed)

\* C14: parseSpec returns a model for every input text, also one with a
\* malformed leading front-matter block
C14_ParseNeverThrows ==
    (origin = "text" /\ stage # "input") => ~parsed.threw

\* C15: of several WHEN lines in a scenario, the first gives the parsed when
C15_FirstWhenWins ==
    (origin = "text" /\ stage = "parsed" /\ ~parsed.threw) =>
        LET kept == KeptScenarioLines(BodyLines)
            scen == AllScenarios(parsed.requirements)
        IN  /\ Len(scen) = Cardinality(kept)
            /\ \A k \in 1..Len(scen) :
                  LET whens == {j \in SpanOf(BodyLines, Nth(kept, k)) :
                                  ClauseMatch(BodyLines[j], "WHEN") # <<>>}
                  IN  whens # {} => scen[k].when = ClauseMatch(BodyLines[MinOf(whens)], "WHEN")

\* C16: the title is the text of the first title line, without a trailing
\* "Specification"; later title lines do not change it
C16_FirstTitleWins ==
    (origin = "text" /\ stage = "parsed" /\ ~parsed.threw) =>
        LET titles == {i \in 1..Len(BodyLines) : TitleMatch(BodyLines[i]) # <<>>}
        IN  titles # {} =>
              parsed.title = Trim(StripSpecification(TitleMatch(BodyLines[MinOf(titles)])))

\* ======================================================= the validator
\* "should" is the word in lower or mixed case, "SHOULD" the word in capitals

\* a ValidationIssue: subject is the name its message quotes, line is 0
\* where the issue carries no line
Issue(type, code, subject, line) ==
    [type |-> type, code |-> code, subject |-> subject, line |-> line]

\* validateSpec's variables before the loop; currentRequirement and
\* currentScenario are sequences of length 0 (null) or 1
ValidateStart(lines, content, delta_) ==
    [errors |-> IF ~(\E i \in 1..Len(lines) : TitleMatch(lines[i]) # <<>>) /\ ~delta_
                THEN <<Issue("error", "MISSING_TITLE", <<>>, 0)>> ELSE <<>>,
     warnings |-> IF ~(\E i \in 1..Len(content) : content[i] = "PURPOSE") /\ ~delta_
                  THEN <<Issue("warning", "MISSING_PURPOSE", <<>>, 0)>> ELSE <<>>,
     requirementCount |-> 0, scenarioCount |-> 0,
     currentRequirement |-> <<>>, currentScenario |-> <<>>,
     hasWhen |-> FALSE, hasThen |-> FALSE,
     seenRequirements |-> {}, seenScenarios |-> {}]

\* the errors for the scenario that a heading or the end of the text closes
MissingClauses(st) ==
    (IF st.currentScenario # <<>> /\ ~st.hasWhen
     THEN <<Issue("error", "MISSING_WHEN", st.currentScenario[1], 0)>> ELSE <<>>)
    \o (IF st.currentScenario # <<>> /\ ~st.hasThen
        THEN <<Issue("error", "MISSING_THEN", st.currentScenario[1], 0)>> ELSE <<>>)

\* a requirement branch that counts a name once
ValidateRequirementLineOnce(st, name, lineNum) ==
    [st EXCEPT
       !.errors = @ \o MissingClauses(st)
                    \o (IF name \in st.seenRequirements
                        THEN <<Issue("error", "DUPLICATE_REQUIREMENT", name, lineNum)>>
                        ELSE <<>>),
       !.seenRequirements = @ \cup {name},
       !.currentRequirement = <<name>>,
       !.currentScenario = <<>>,
       !.hasWhen = FALSE,
       !.hasThen = FALSE,
       !.requirementCount = IF name \in st.seenRequirements THEN @ ELSE @ + 1]

\* the requirement heading's branch of validateSpec's loop
ValidateRequirementLine(st, name, lineNum) ==
    [st EXCEPT
       !.errors = @ \o MissingClauses(st)
                    \o (IF name \in st.seenRequirements
                        THEN <<Issue("error", "DUPLICATE_REQUIREMENT", name, lineNum)>>
                        ELSE <<>>),
       !.seenRequirements = @ \cup {name},
       !.currentRequirement = <<name>>,
       !.currentScenario = <<>>,
       !.hasWhen = FALSE,
       !.hasThen = FALSE,
       !.requirementCount = @ + 1]

\* the template literal currentRequirement/scenarioMatch[1]; null prints
\* as the four letters
ScenarioKey(currentRequirement, name) ==
    (IF currentRequirement = <<>> THEN <<"n", "u", "l", "l">> ELSE currentRequirement[1])
    \o <<"/">> \o name

\* a scenario branch that reports an orphan whatever isDelta is
ValidateScenarioLineAnyMode(st, name, lineNum, delta_) ==
    [st EXCEPT
       !.errors = @ \o MissingClauses(st)
                    \o (IF st.currentRequirement = <<>>
                        THEN <<Issue("error", "ORPHAN_SCENARIO", name, lineNum)>> ELSE <<>>)
                    \o (IF ScenarioKey(st.currentRequirement, name) \in st.seenScenarios
                        THEN <<Issue("error", "DUPLICATE_SCENARIO", name, lineNum)>>
                        ELSE <<>>),
       !.seenScenarios = @ \cup {ScenarioKey(st.currentRequirement, name)},
       !.currentScenario = <<name>>,
       !.hasWhen = FALSE,
       !.hasThen = FALSE,
       !.scenarioCount = @ + 1]

\* a scenario branch that leaves hasWhen and hasThen as they are
ValidateScenarioLineNoReset(st, name, lineNum, delta_) ==
    [st EXCEPT
       !.errors = @ \o MissingClauses(st)
                    \o (IF st.currentRequirement = <<>> /\ ~delta_
                        THEN <<Issue("error", "ORPHAN_SCENARIO", name, lineNum)>> ELSE <<>>)
                    \o (IF ScenarioKey(st.currentRequirement, name) \in st.seenScenarios
                        THEN <<Issue("error", "DUPLICATE_SCENARIO", name, lineNum)>>
                        ELSE <<>>),
       !.seenScenarios = @ \cup {ScenarioKey(st.currentRequirement, name)},
       !.currentScenario = <<name>>,
       !.scenarioCount = @ + 1]

\* the scenario heading's branch of validateSpec's loop
ValidateScenarioLine(st, name, lineNum, delta_) ==
    [st EXCEPT
       !.errors = @ \o MissingClauses(st)
                    \o (IF st.currentRequirement = <<>> /\ ~delta_
                        THEN <<Issue("error", "ORPHAN_SCENARIO", name, lineNum)>> ELSE <<>>)
                    \o (IF ScenarioKey(st.currentRequirement, name) \in st.seenScenarios
                        THEN <<Issue("error", "DUPLICATE_SCENARIO", name, lineNum)>>
                        ELSE <<>>),
       !.seenScenarios = @ \cup {ScenarioKey(st.currentRequirement, name)},
       !.currentScenario = <<name>>,
       !.hasWhen = FALSE,
       !.hasThen = FALSE,
       !.scenarioCount = @ + 1]

\* line.match(/\bshould\b/i) && !line.match(/\bSHOULD\b/)
WeakLanguage(line) ==
    /\ \E i \in 1..Len(line) : line[i] = "should"
    /\ ~(\E i \in 1..Len(line) : line[i] = "SHOULD")

\* one iteration of validateSpec's loop
ValidateLine(st, line, lineNum, delta_) ==
    IF ReqMatch(line) # <<>> THEN ValidateRequirementLine(st, ReqMatch(line), lineNum)
    ELSE IF ScenarioMatch(line) # <<>>
    THEN ValidateScenarioLine(st, ScenarioMatch(line), lineNum, delta_)
    ELSE IF KeywordAt(line, "WHEN") # 0
    THEN [st EXCEPT !.errors = IF st.currentScenario = <<>>
                               THEN Append(@, Issue("error", "ORPHAN_WHEN", <<>>, lineNum))
                               ELSE @,
                    !.hasWhen = TRUE]
    ELSE IF KeywordAt(line, "THEN") # 0
    THEN [st EXCEPT !.errors = IF st.currentScenario = <<>>
                               THEN Append(@, Issue("error", "ORPHAN_THEN", <<>>, lineNum))
                               ELSE @,
                    !.hasThen = TRUE]
    ELSE IF st.currentRequirement # <<>> /\ st.currentScenario = <<>> /\ WeakLanguage(line)
    THEN [st EXCEPT !.warnings = Append(@, Issue("warning", "WEAK_LANGUAGE", <<>>, lineNum))]
    ELSE st

RECURSIVE ValidateLines(_, _, _, _)
ValidateLines(st, lines, i, delta_) ==
    IF i > Len(lines) THEN st
    ELSE ValidateLines(ValidateLine(st, lines[i], i, delta_), lines, i + 1, delta_)

\* validateDeltaSpec: the first REMOVED section runs to the next "## ",
\* which every heading of two or more "#" holds; it needs a **Reason**
ValidateDeltaSpec(content) ==
    LET starts == {i \in 1..Len(content) : content[i] = "REMOVED"}
    IN  IF starts = {} THEN <<>>
        ELSE LET i     == MinOf(starts)
                 stops == {j \in (i + 1)..Len(content) :
                             content[j] \in {"H", "S", "ADDED", "MODIFIED", "REMOVED",
                                             "RENAMED", "PURPOSE", "REQUIREMENTS"}}
                 e     == IF stops = {} THEN Len(content) ELSE MinOf(stops) - 1
             IN  IF \E j \in (i + 1)..e : content[j] = "REASON" THEN <<>>
                 ELSE <<Issue("warning", "REMOVED_NO_REASON", <<>>, 0)>>

\* valid of a result with all warnings counted as errors
ValidFlagStrict(errors, warnings) == Len(errors) = 0 /\ Len(warnings) = 0

\* valid: errors.length === 0
ValidFlag(errors, warnings) == Len(errors) = 0

\* validateSpec(content, name, isDelta)
ValidateSpec(content, delta_) ==
    LET lines    == SplitLines(content)
        st       == ValidateLines(ValidateStart(lines, content, delta_), lines, 1, delta_)
        errors   == st.errors \o MissingClauses(st)
        warnings == st.warnings \o (IF delta_ THEN ValidateDeltaSpec(content) ELSE <<>>)
    IN  [valid |-> ValidFlag(errors, warnings),
         errors |-> errors,
         warnings |-> warnings,
         stats |-> [requirements |-> st.requirementCount, scenarios |-> st.scenarioCount]]

\* an issue that names the spec being read twice
CrossIssueSelf(name, first, second) ==
    [type |-> "error", code |-> "CROSS_SPEC_DUPLICATE", subject |-> name,
     first |-> second, second |-> second]

\* the issue validateSpecSet pushes: the requirement's name, the spec that
\* declared it last, and the spec being read
CrossIssue(name, first, second) ==
    [type |-> "error", code |-> "CROSS_SPEC_DUPLICATE", subject |-> name,
     first |-> first, second |-> second]

\* content.matchAll(/^### Requirement: (.+)$/gm): the names, in order
RequirementNames(content) ==
    LET lines == SplitLines(content)
        hits  == SelectSeq(lines, LAMBDA l : ReqMatch(l) # <<>>)
    IN  [i \in 1..Len(hits) |-> ReqMatch(hits[i])]

\* the inner loop of validateSpecSet over one spec's requirement names;
\* allRequirements is a function from the names seen to their spec
RECURSIVE CollectRequirements(_, _, _)
CollectRequirements(st, names, name) ==
    IF names = <<>> THEN st
    ELSE LET n    == Head(names)
             seen == n \in DOMAIN st.allRequirements
             st1  == [issues |-> IF seen
                                 THEN Append(st.issues, CrossIssue(n, st.allRequirements[n], name))
                                 ELSE st.issues,
                      allRequirements |->
                          [k \in DOMAIN st.allRequirements \cup {n} |->
                              IF k = n THEN name ELSE st.allRequirements[k]]]
         IN  CollectRequirements(st1, Tail(names), name)

RECURSIVE ValidateSpecs(_, _)
ValidateSpecs(st, entries) ==
    IF entries = <<>> THEN st
    ELSE ValidateSpecs(CollectRequirements(st, RequirementNames(Head(entries).content),
                                           Head(entries).name),
                       Tail(entries))

\* validateSpecSet(specs)
ValidateSpecSet(entries) ==
    LET st == ValidateSpecs([issues |-> <<>>, allRequirements |-> <<>>], entries)
    IN  [valid |-> Len(SelectSeq(st.issues, LAMBDA i : i.type = "error")) = 0,
         issues |-> st.issues]

\* ------------------------------------------------ the validator's documents
ValidatorLines ==
    { <<"#", " ", "x">>,
      <<"PURPOSE">>,
      Heading(NameA),
      Heading(NameSlash),
      <<"S", " ">> \o ScenarioB,
      <<"S", " ">> \o ScenarioSlash,
      <<"-", " ", "WHEN", " ">> \o ClauseX,
      <<"-", " ", "THEN", " ">> \o ClauseX }

\* the lines of a delta document's REMOVED section: its heading as the
\* validator spells it ("REMOVED") and in another letter case ("Removed"),
\* a requirement heading and a Reason line
RemovalLines ==
    { <<"REMOVED">>,
      <<"Removed">>,
      Heading(NameA),
      <<"REASON", " ", "r">> }

\* the clause lines of a scenario, with and without text after the keyword
ScenarioClauseLines ==
    { <<"-", " ", "WHEN">>,
      <<"-", " ", "WHEN", " ">> \o ClauseX,
      <<"-", " ", "THEN">>,
      <<"-", " ", "THEN", " ">> \o ClauseX }

\* a title, a requirement and a scenario, followed by clause lines
ScenarioDocuments ==
    {JoinLines(<<<<"#", " ", "x">>, Heading(NameA), <<"S", " ">> \o ScenarioB>>
               \o ls \o <<<<>>>>) :
        ls \in UNION {[1..n -> ScenarioClauseLines] : n \in 0..(MaxLines - 2)}}

ValidatorDocuments ==
    {JoinLines(ls \o <<<<>>>>) :
        ls \in UNION {[1..n -> ValidatorLines] : n \in 0..MaxLines}
               \cup UNION {[1..n -> RemovalLines] : n \in 0..MaxLines}}
    \cup ScenarioDocuments

\* the Maps validateSpecSet is given: one or two specs under distinct names
SetDocuments ==
    {JoinLines(ls \o <<<<>>>>) :
        ls \in UNION {[1..n -> {Heading(NameA), Heading(NameSlash)}] : n \in 0..2}}

SpecSets ==
    LET keys == {<<"auth">>, <<"user">>, <<"auth", "user">>, <<"user", "auth">>,
                 <<"auth", "user", "admin">>}
    IN  UNION {{[i \in 1..Len(ks) |-> [name |-> ks[i], content |-> cs[i]]] :
                  cs \in [1..Len(ks) -> SetDocuments]} : ks \in keys}

InitValidate ==
    /\ \/ /\ origin = "text"
          /\ doc \in ValidatorDocuments
          /\ isDelta \in BOOLEAN
          /\ specs = <<>>
       \/ /\ origin = "set"
          /\ doc = <<>>
          /\ isDelta = FALSE
          /\ specs \in SpecSets
    /\ stage = "input"
    /\ parsed = <<>>
    /\ serialized = <<>>
    /\ reparsed = <<>>
    /\ result = <<>>
    /\ setResult = <<>>
    /\ delta = <<>>
    /\ mainSpec = NoFile
    /\ baseline = NoFile
    /\ pc = "none"
    /\ operations = <<>>
    /\ sorted = <<>>
    /\ idx = 1
    /\ mainContent = <<>>
    /\ prev = <<>>
    /\ log = <<>>
    /\ NoCommand

\* validateSpec(doc, name, isDelta)
ValidateDocument ==
    /\ origin = "text"
    /\ stage = "input"
    /\ result' = ValidateSpec(doc, isDelta)
    /\ stage' = "validated"
    /\ UNCHANGED <<origin, doc, parsed, serialized, reparsed, isDelta, specs, setResult>>
    /\ UNCHANGED <<mergeVars, archiveVars>>

\* validateSpecSet(specs)
ValidateSet ==
    /\ origin = "set"
    /\ stage = "input"
    /\ setResult' = ValidateSpecSet(specs)
    /\ stage' = "validated"
    /\ UNCHANGED <<origin, doc, parsed, serialized, reparsed, isDelta, result, specs>>
    /\ UNCHANGED <<mergeVars, archiveVars>>

NextValidate ==
    \/ ValidateDocument
    \/ ValidateSet

SpecValidate == InitValidate /\ [][NextValidate]_vars

\* ------------------------------------------------ what a result is compared by
DocLines == SplitLines(doc)

\* the indexes of the lines that are scenario headings, requirement headings
ScenarioLines == {i \in 1..Len(DocLines) : ScenarioMatch(DocLines[i]) # <<>>}
RequirementLines == {i \in 1..Len(DocLines) : ReqMatch(DocLines[i]) # <<>>}

\* the members of a set of numbers, in increasing order
RECURSIVE Ascending(_)
Ascending(S) == IF S = {} THEN <<>> ELSE <<MinOf(S)>> \o Ascending(S \ {MinOf(S)})

\* the errors of a result that carry the code
WithCode(issues, code) == SelectSeq(issues, LAMBDA i : i.code = code)

\* the scenario headings with no line of the keyword before the next
\* scenario heading, requirement heading or the end
Lacking(kw) ==
    {i \in ScenarioLines :
        ~(\E j \in SpanOf(DocLines, i) : KeywordAt(DocLines[j], kw) # 0)}

\* the name of the requirement heading a line stands under, <<>> for none
RequirementOver(i) ==
    LET above == {j \in RequirementLines : j < i}
    IN  IF above = {} THEN <<>> ELSE <<ReqMatch(DocLines[MaxOf(above)])>>

Validated == origin = "text" /\ stage = "validated"

\* C17: valid is true exactly when the result has no error, whatever the
\* warnings; validateSpecSet's valid is true exactly when no issue is an error
C17_ValidIffNoErrors ==
    /\ Validated => (result.valid <=> result.errors = <<>>)
    /\ (origin = "set" /\ stage = "validated") =>
          (setResult.valid <=> \A i \in 1..Len(setResult.issues) :
                                   setResult.issues[i].type # "error")

C17_Witness ==
    /\ Validated
    /\ result.valid
    /\ result.warnings # <<>>

\* C18: the MISSING_WHEN errors are, in order, one for each scenario heading
\* with no WHEN line up to the next heading or the end, and likewise the
\* MISSING_THEN errors
C18_MissingClausePerScenario ==
    Validated =>
        LET when == WithCode(result.errors, "MISSING_WHEN")
            then == WithCode(result.errors, "MISSING_THEN")
            noWhen == Ascending(Lacking("WHEN"))
            noThen == Ascending(Lacking("THEN"))
        IN  /\ Len(when) = Len(noWhen)
            /\ \A k \in 1..Len(when) : when[k].subject = ScenarioMatch(DocLines[noWhen[k]])
            /\ Len(then) = Len(noThen)
            /\ \A k \in 1..Len(then) : then[k].subject = ScenarioMatch(DocLines[noThen[k]])

\* a scenario with a WHEN and no THEN, after a scenario with neither
C18_Witness ==
    /\ Validated
    /\ Len(WithCode(result.errors, "MISSING_THEN")) = 2
    /\ Len(WithCode(result.errors, "MISSING_WHEN")) = 1
    /\ Cardinality(ScenarioLines) = 2
    /\ MaxOf(ScenarioLines) \notin Lacking("WHEN")

\* C19: one DUPLICATE_REQUIREMENT for each requirement heading whose name an
\* earlier heading declared, and stats.requirements counts every heading
C19_DuplicateRequirementPerHeading ==
    Validated =>
        LET dup  == WithCode(result.errors, "DUPLICATE_REQUIREMENT")
            rep  == Ascending({i \in RequirementLines :
                                 \E j \in RequirementLines :
                                    j < i /\ ReqMatch(DocLines[j]) = ReqMatch(DocLines[i])})
        IN  /\ [k \in 1..Len(dup) |-> dup[k].line] = rep
            /\ result.stats.requirements = Cardinality(RequirementLines)

C19_Witness ==
    /\ Validated
    /\ Len(WithCode(result.errors, "DUPLICATE_REQUIREMENT")) = 1
    /\ result.stats.requirements = 2
    /\ Cardinality(RequirementLines) = 2

\* C20: DUPLICATE_SCENARIO is reported for a scenario heading exactly when an
\* earlier scenario heading under the same requirement has the same name
C20_DuplicateScenarioSameRequirement ==
    Validated =>
        LET dup == WithCode(result.errors, "DUPLICATE_SCENARIO")
            rep == Ascending({i \in ScenarioLines :
                                \E j \in ScenarioLines :
                                   /\ j < i
                                   /\ ScenarioMatch(DocLines[j]) = ScenarioMatch(DocLines[i])
                                   /\ RequirementOver(j) = RequirementOver(i)})
        IN  [k \in 1..Len(dup) |-> dup[k].line] = rep

\* ==================================================== the archive command
MaxCaps == 2

\* what a capability directory of the change holds: a spec.md with delta
\* sections, a spec.md without, or no spec.md
CapabilityKinds == {"delta", "plain", "nospec"}

\* the change directories the command can be pointed at
Changes ==
    {c \in [initialized : BOOLEAN, exists : BOOLEAN, proposal : BOOLEAN,
            design : BOOLEAN, specs : BOOLEAN,
            tasks : {"absent", "complete", "incomplete"}] :
        (~c.initialized => ~c.exists)
        /\ (~c.exists => ~c.proposal /\ ~c.design /\ ~c.specs /\ c.tasks = "absent")}

\* the entries readdirSync(changePath) lists
EntriesOf(c) ==
    (IF c.proposal THEN {"proposal.md"} ELSE {})
    \cup (IF c.design THEN {"design.md"} ELSE {})
    \cup (IF c.specs THEN {"specs"} ELSE {})
    \cup (IF c.tasks # "absent" THEN {"tasks.md"} ELSE {})

\* checkPrerequisites(changePath).issues
PrerequisiteIssues(c) ==
    (IF ~c.proposal THEN {"Missing proposal.md"} ELSE {})
    \cup (IF ~c.design THEN {"Missing design.md"} ELSE {})
    \cup (IF ~c.specs THEN {"Missing specs/ directory"} ELSE {})
    \cup (IF c.tasks = "incomplete" THEN {"incomplete tasks in tasks.md"} ELSE {})

\* the main spec of a capability after applyDeltas has handled its entry
Applied(kind, before) ==
    IF kind = "delta" THEN "merged"
    ELSE IF kind = "plain" THEN "copied"
    ELSE before

InitArchive ==
    /\ apc = "start"
    /\ options \in [yes : BOOLEAN, skipSpecs : BOOLEAN]
    /\ change \in Changes
    /\ capabilities \in UNION {[1..n -> CapabilityKinds] : n \in 0..MaxCaps}
    /\ change.specs \/ capabilities = <<>>
    /\ capIdx = 1
    /\ mainSpecs = [c \in 1..Len(capabilities) |-> "baseline"]
    /\ changeEntries = EntriesOf(change)
    /\ archiveEntries = {}
    /\ exitCode = "none"
    /\ confirmed = "unasked"
    /\ delta = <<>>
    /\ mainSpec = NoFile
    /\ baseline = NoFile
    /\ pc = "none"
    /\ operations = <<>>
    /\ sorted = <<>>
    /\ idx = 1
    /\ mainContent = <<>>
    /\ prev = <<>>
    /\ log = <<>>
    /\ NoDocument

\* superspec/ or the change directory does not exist: process.exit(1)
ChangeNotFound ==
    /\ apc = "start"
    /\ ~change.initialized \/ ~change.exists
    /\ apc' = "refused"
    /\ exitCode' = "1"
    /\ UNCHANGED <<options, confirmed, change, capabilities, capIdx, mainSpecs, changeEntries, archiveEntries>>
    /\ UNCHANGED <<mergeVars, textVars>>

\* checkPrerequisites reports issues: process.exit(1)
PrerequisitesNotMet ==
    /\ apc = "start"
    /\ change.initialized /\ change.exists
    /\ PrerequisiteIssues(change) # {}
    /\ apc' = "refused"
    /\ exitCode' = "1"
    /\ UNCHANGED <<options, confirmed, change, capabilities, capIdx, mainSpecs, changeEntries, archiveEntries>>
    /\ UNCHANGED <<mergeVars, textVars>>

\* a command that goes on whatever checkPrerequisites reports
PrerequisitesMetUnchecked ==
    /\ apc = "start"
    /\ change.initialized /\ change.exists
    /\ apc' = "checked"
    /\ UNCHANGED <<options, confirmed, change, capabilities, capIdx, mainSpecs, changeEntries, archiveEntries, exitCode>>
    /\ UNCHANGED <<mergeVars, textVars>>

\* checkPrerequisites reports no issue
PrerequisitesMet ==
    /\ apc = "start"
    /\ change.initialized /\ change.exists
    /\ PrerequisiteIssues(change) = {}
    /\ apc' = "checked"
    /\ UNCHANGED <<options, confirmed, change, capabilities, capIdx, mainSpecs, changeEntries, archiveEntries, exitCode>>
    /\ UNCHANGED <<mergeVars, textVars>>

\* the user declines the confirmation: return
Cancel ==
    /\ apc = "checked"
    /\ ~options.yes
    /\ confirmed' = "no"
    /\ apc' = "cancelled"
    /\ exitCode' = "0"
    /\ UNCHANGED <<options, change, capabilities, capIdx, mainSpecs, changeEntries, archiveEntries>>
    /\ UNCHANGED <<mergeVars, textVars>>

\* options.yes, or the user confirms; applyDeltas starts unless skipSpecs
Proceed ==
    /\ apc = "checked"
    /\ confirmed' = IF options.yes THEN "unasked" ELSE "yes"
    /\ apc' = IF options.skipSpecs THEN "moving" ELSE "applying"
    /\ UNCHANGED <<options, change, capabilities, capIdx, mainSpecs, changeEntries, archiveEntries, exitCode>>
    /\ UNCHANGED <<mergeVars, textVars>>

\* one iteration of applyDeltas' loop: merge, copy, or skip the entry
ApplyCapability ==
    /\ apc = "applying"
    /\ capIdx <= Len(capabilities)
    /\ mainSpecs' = [mainSpecs EXCEPT ![capIdx] = Applied(capabilities[capIdx], @)]
    /\ capIdx' = capIdx + 1
    /\ UNCHANGED <<apc, options, confirmed, change, capabilities, changeEntries, archiveEntries, exitCode>>
    /\ UNCHANGED <<mergeVars, textVars>>

\* a file operation of the iteration throws; the write may have begun
ApplyThrows ==
    /\ apc = "applying"
    /\ capIdx <= Len(capabilities)
    /\ capabilities[capIdx] # "nospec"
    /\ \E after \in {mainSpecs[capIdx], "partial"} :
          mainSpecs' = [mainSpecs EXCEPT ![capIdx] = after]
    /\ apc' = "caught"
    /\ UNCHANGED <<options, confirmed, change, capabilities, capIdx, changeEntries, archiveEntries, exitCode>>
    /\ UNCHANGED <<mergeVars, textVars>>

\* applyDeltas returns; moveToArchive starts
BeginMove ==
    /\ apc = "applying"
    /\ capIdx > Len(capabilities)
    /\ apc' = "moving"
    /\ UNCHANGED <<options, confirmed, change, capabilities, capIdx, mainSpecs, changeEntries, archiveEntries, exitCode>>
    /\ UNCHANGED <<mergeVars, textVars>>

\* moveToArchive copies one entry of the change directory
CopyEntry ==
    /\ apc = "moving"
    /\ \E e \in changeEntries \ archiveEntries : archiveEntries' = archiveEntries \cup {e}
    /\ UNCHANGED <<apc, options, confirmed, change, capabilities, capIdx, mainSpecs, changeEntries, exitCode>>
    /\ UNCHANGED <<mergeVars, textVars>>

\* mkdirSync or a copy throws
MoveThrows ==
    /\ apc = "moving"
    /\ changeEntries \ archiveEntries # {}
    /\ apc' = "caught"
    /\ UNCHANGED <<options, confirmed, change, capabilities, capIdx, mainSpecs, changeEntries, archiveEntries, exitCode>>
    /\ UNCHANGED <<mergeVars, textVars>>

\* a removal that does not wait for the copies
RemoveOriginalEarly ==
    /\ apc = "moving"
    /\ changeEntries' = {}
    /\ apc' = "complete"
    /\ exitCode' = "0"
    /\ UNCHANGED <<options, confirmed, change, capabilities, capIdx, mainSpecs, archiveEntries>>
    /\ UNCHANGED <<mergeVars, textVars>>

\* rmSync(changePath, { recursive: true }), then "Archive complete!"
RemoveOriginal ==
    /\ apc = "moving"
    /\ changeEntries \subseteq archiveEntries
    /\ changeEntries' = {}
    /\ apc' = "complete"
    /\ exitCode' = "0"
    /\ UNCHANGED <<options, confirmed, change, capabilities, capIdx, mainSpecs, archiveEntries>>
    /\ UNCHANGED <<mergeVars, textVars>>

\* rmSync throws after removing some of the entries
RemoveThrows ==
    /\ apc = "moving"
    /\ changeEntries \subseteq archiveEntries
    /\ changeEntries' \in SUBSET changeEntries
    /\ apc' = "caught"
    /\ UNCHANGED <<options, confirmed, change, capabilities, capIdx, mainSpecs, archiveEntries, exitCode>>
    /\ UNCHANGED <<mergeVars, textVars>>

\* a catch block that puts the main specs back before exiting
CatchRestoring ==
    /\ apc = "caught"
    /\ mainSpecs' = [c \in DOMAIN mainSpecs |-> "baseline"]
    /\ apc' = "failed"
    /\ exitCode' = "1"
    /\ UNCHANGED <<options, confirmed, change, capabilities, capIdx, changeEntries, archiveEntries>>
    /\ UNCHANGED <<mergeVars, textVars>>

\* the catch block: "Archive failed", process.exit(1)
Catch ==
    /\ apc = "caught"
    /\ apc' = "failed"
    /\ exitCode' = "1"
    /\ UNCHANGED <<options, confirmed, change, capabilities, capIdx, mainSpecs, changeEntries, archiveEntries>>
    /\ UNCHANGED <<mergeVars, textVars>>

NextArchive ==
    \/ ChangeNotFound
    \/ PrerequisitesNotMet
    \/ PrerequisitesMet
    \/ Cancel
    \/ Proceed
    \/ ApplyCapability
    \/ ApplyThrows
    \/ BeginMove
    \/ CopyEntry
    \/ MoveThrows
    \/ RemoveOriginal
    \/ RemoveThrows
    \/ Catch

SpecArchive == InitArchive /\ [][NextArchive]_vars

\* the capabilities whose entry applyDeltas has handled
Handled == 1..(capIdx - 1)

\* C11: when the command fails after some capabilities were written (the
\* next merge throws, or the move to the archive throws), the main specs
\* written so far stay as written and the exit code is 1
C11_FailureKeepsWrittenSpecs ==
    apc = "failed" =>
        /\ exitCode = "1"
        /\ \A c \in Handled : mainSpecs[c] = Applied(capabilities[c], "baseline")

\* the second capability's merge failed after the first was written
C11_Witness ==
    /\ apc = "failed"
    /\ capIdx = 2
    /\ Len(capabilities) = 2
    /\ mainSpecs[1] = "merged"
    /\ mainSpecs[2] # "merged"

\* C21: ORPHAN_SCENARIO is reported for exactly the scenario headings that
\* no requirement heading precedes when isDelta is false, and never when
\* isDelta is true
C21_OrphanScenario ==
    Validated =>
        LET orphan == WithCode(result.errors, "ORPHAN_SCENARIO")
            bare   == {i \in ScenarioLines : RequirementOver(i) = <<>>}
        IN  [k \in 1..Len(orphan) |-> orphan[k].line]
                = Ascending(IF isDelta THEN {} ELSE bare)

\* a plain document with an orphan scenario and one under a requirement
C21_Witness ==
    /\ Validated
    /\ ~isDelta
    /\ Len(WithCode(result.errors, "ORPHAN_SCENARIO")) = 1
    /\ Cardinality(ScenarioLines) = 2

\* the lines that are headings of a REMOVED section, in any letter case
RemovedHeadings == {i \in 1..Len(DocLines) : SectionOf(DocLines[i]) = "removed"}

\* the requirement headings that stand under a REMOVED section heading
RemovedEntries ==
    {i \in RequirementLines :
        \E h \in RemovedHeadings :
           h < i /\ \A j \in (h + 1)..(i - 1) : SectionOf(DocLines[j]) = "none"}

\* a Reason line stands between the entry's heading and the next
\* requirement heading, section heading or the end
HasReason(i) ==
    LET stops == {j \in (i + 1)..Len(DocLines) :
                    ReqMatch(DocLines[j]) # <<>> \/ SectionOf(DocLines[j]) # "none"}
        e     == IF stops = {} THEN Len(DocLines) ELSE MinOf(stops) - 1
    IN  \E j \in (i + 1)..e : DocLines[j] # <<>> /\ DocLines[j][1] = "REASON"

\* C22: with isDelta true, a document with a REMOVED section, its heading in
\* any accepted spelling, in which some entry has no Reason line gets a
\* REMOVED_NO_REASON warning, also when another entry carries a Reason
C22_RemovedWithoutReasonWarns ==
    (Validated /\ isDelta /\ \E i \in RemovedEntries : ~HasReason(i)) =>
        WithCode(result.warnings, "REMOVED_NO_REASON") # <<>>

SetValidated == origin = "set" /\ stage = "validated"

\* the names of the documents of the set that declare the requirement name
Declaring(n) ==
    {specs[i].name : i \in {k \in 1..Len(specs) :
                              \E j \in 1..Len(RequirementNames(specs[k].content)) :
                                 RequirementNames(specs[k].content)[j] = n}}

DeclaredNames ==
    UNION {{RequirementNames(specs[i].content)[j] :
              j \in 1..Len(RequirementNames(specs[i].content))} : i \in 1..Len(specs)}

\* C23: for every requirement name declared in two different documents there
\* is a CROSS_SPEC_DUPLICATE error for the name that names two different
\* documents declaring it, and valid is false
C23_CrossDuplicateReported ==
    SetValidated =>
        \A n \in DeclaredNames :
            Cardinality(Declaring(n)) >= 2 =>
                /\ ~setResult.valid
                /\ \E k \in 1..Len(setResult.issues) :
                      /\ setResult.issues[k].code = "CROSS_SPEC_DUPLICATE"
                      /\ setResult.issues[k].subject = n
                      /\ setResult.issues[k].first # setResult.issues[k].second
                      /\ {setResult.issues[k].first, setResult.issues[k].second}
                             \subseteq Declaring(n)

\* three documents declare the same name
C23_Witness ==
    /\ SetValidated
    /\ Len(specs) = 3
    /\ Cardinality(Declaring(NameA)) = 3
    /\ Len(setResult.issues) = 2

\* C24: no CROSS_SPEC_DUPLICATE is reported when no requirement name is
\* declared in more than one document
C24_DisjointNamesNoIssue ==
    (SetValidated /\ \A n \in DeclaredNames : Cardinality(Declaring(n)) = 1) =>
        \A k \in 1..Len(setResult.issues) :
            setResult.issues[k].code # "CROSS_SPEC_DUPLICATE"

\* ========================================================= parseDeltaSpec
\* "MIGRATION" is the literal "**Migration**:", as "REASON" is "**Reason**:"

\* line.match(/^\*\*Reason\*\*:\s*(.+)$/)?.[1] with kw = "REASON", the
\* Migration pattern with kw = "MIGRATION"; <<>> when there is no match
FieldMatch(line, kw) ==
    IF Len(line) < 2 \/ line[1] # kw THEN <<>>
    ELSE LET rest == SubSeq(line, 2, Len(line))
         IN  IF NonWsIdx(rest) = {} THEN SubSeq(rest, Len(rest), Len(rest))
             ELSE TrimStart(rest)

\* parseDeltaSpec's variables before the first line
ParseDeltaStart ==
    [added |-> <<>>, modified |-> <<>>, removed |-> <<>>, renamed |-> <<>>,
     currentSection |-> "none", currentRequirement |-> <<>>,
     currentScenario |-> <<>>, currentRemoved |-> <<>>]

\* currentRequirement with its open scenario pushed
Closed(st) == [st.currentRequirement[1] EXCEPT !.scenarios = @ \o st.currentScenario]

\* a saveCurrentState that forgets the open entries
SaveCurrentStateDropping(st) ==
    [st EXCEPT !.currentRequirement = <<>>,
               !.currentScenario = IF st.currentRequirement # <<>> THEN <<>> ELSE @,
               !.currentRemoved = <<>>]

\* saveCurrentState()
SaveCurrentState(st) ==
    [st EXCEPT
       !.added = IF st.currentRequirement # <<>> /\ st.currentSection = "added"
                 THEN Append(@, Closed(st)) ELSE @,
       !.modified = IF st.currentRequirement # <<>> /\ st.currentSection = "modified"
                    THEN Append(@, Closed(st)) ELSE @,
       !.removed = @ \o st.currentRemoved,
       !.currentRequirement = <<>>,
       !.currentScenario = IF st.currentRequirement # <<>> THEN <<>> ELSE @,
       !.currentRemoved = <<>>]

\* the requirement heading's branch of parseDeltaSpec's loop
DeltaRequirementLine(st, name) ==
    [st EXCEPT
       !.added = IF st.currentRequirement # <<>> /\ st.currentSection = "added"
                 THEN Append(@, Closed(st)) ELSE @,
       !.modified = IF st.currentRequirement # <<>> /\ st.currentSection = "modified"
                    THEN Append(@, Closed(st)) ELSE @,
       !.removed = IF st.currentSection = "removed" THEN @ \o st.currentRemoved ELSE @,
       !.currentRemoved = IF st.currentSection = "removed"
                          THEN <<[name |-> name, reason |-> <<>>, migration |-> <<>>]>>
                          ELSE <<>>,
       !.currentRequirement = IF st.currentSection = "removed" THEN <<>>
                              ELSE <<NewRequirement(name)>>,
       !.currentScenario = <<>>]

\* a renamed branch whose TO line sets the first entry's to
DeltaRenamedLineFirst(st, line) ==
    LET pushed == IF RenameMatch(line, "FROM") # <<>>
                  THEN Append(st.renamed, [from |-> RenameMatch(line, "FROM"), to |-> <<>>])
                  ELSE st.renamed
    IN  [st EXCEPT !.renamed =
            IF RenameMatch(line, "TO") # <<>> /\ pushed # <<>>
            THEN [pushed EXCEPT ![1].to = RenameMatch(line, "TO")]
            ELSE pushed]

\* the renamed section's branch: FROM pushes an entry, TO sets the last
\* entry's to
DeltaRenamedLine(st, line) ==
    LET pushed == IF RenameMatch(line, "FROM") # <<>>
                  THEN Append(st.renamed, [from |-> RenameMatch(line, "FROM"), to |-> <<>>])
                  ELSE st.renamed
    IN  [st EXCEPT !.renamed =
            IF RenameMatch(line, "TO") # <<>> /\ pushed # <<>>
            THEN [pushed EXCEPT ![Len(pushed)].to = RenameMatch(line, "TO")]
            ELSE pushed]

\* the scenario heading's branch: push the open scenario, open a new one
DeltaScenarioLine(st, name) ==
    [st EXCEPT !.currentRequirement = <<Closed(st)>>,
               !.currentScenario = <<NewScenario(name)>>]

\* one iteration of parseDeltaSpec's loop
ParseDeltaLine(st, line) ==
    IF SectionOf(line) # "none"
    THEN [SaveCurrentState(st) EXCEPT !.currentSection = SectionOf(line)]
    ELSE IF ReqMatch(line) # <<>> /\ st.currentSection # "none"
    THEN DeltaRequirementLine(st, ReqMatch(line))
    ELSE IF st.currentSection = "removed" /\ st.currentRemoved # <<>>
            /\ FieldMatch(line, "REASON") # <<>>
    THEN [st EXCEPT !.currentRemoved[1].reason = FieldMatch(line, "REASON")]
    ELSE IF st.currentSection = "removed" /\ st.currentRemoved # <<>>
            /\ FieldMatch(line, "MIGRATION") # <<>>
    THEN [st EXCEPT !.currentRemoved[1].migration = FieldMatch(line, "MIGRATION")]
    ELSE IF st.currentSection = "renamed" THEN DeltaRenamedLine(st, line)
    ELSE IF ScenarioMatch(line) # <<>> /\ st.currentRequirement # <<>>
    THEN DeltaScenarioLine(st, ScenarioMatch(line))
    ELSE IF st.currentScenario # <<>> /\ ClauseMatch(line, "WHEN") # <<>>
    THEN ParseWhenLine(st, ClauseMatch(line, "WHEN"))
    ELSE IF st.currentScenario # <<>> /\ ClauseMatch(line, "THEN") # <<>>
    THEN ParseThenLine(st, ClauseMatch(line, "THEN"))
    ELSE IF st.currentScenario # <<>> /\ ClauseMatch(line, "AND") # <<>>
    THEN ParseAndLine(st, ClauseMatch(line, "AND"))
    ELSE st

RECURSIVE ParseDeltaLines(_, _)
ParseDeltaLines(st, lines) ==
    IF lines = <<>> THEN st
    ELSE ParseDeltaLines(ParseDeltaLine(st, Head(lines)), Tail(lines))

\* parseDeltaSpec(content): the loop, then the entries still open
ParseDeltaSpec(content) ==
    LET st == ParseDeltaLines(ParseDeltaStart, SplitLines(content))
    IN  [added |-> IF st.currentRequirement # <<>> /\ st.currentSection = "added"
                   THEN Append(st.added, Closed(st)) ELSE st.added,
         modified |-> IF st.currentRequirement # <<>> /\ st.currentSection = "modified"
                      THEN Append(st.modified, Closed(st)) ELSE st.modified,
         removed |-> IF st.currentSection = "removed"
                     THEN st.removed \o st.currentRemoved ELSE st.removed,
         renamed |-> st.renamed]

\* ------------------------------------------------ the delta parser's documents
\* section headings, requirement and scenario headings, a clause, prose
DeltaBlockLines ==
    { <<"ADDED">>, <<"MODIFIED">>, <<"REMOVED">>,
      Heading(NameA),
      Heading(NameAB),
      <<"S", " ">> \o ScenarioB,
      <<"-", " ", "WHEN", " ">> \o ClauseX,
      <<"x">> }

RenameLine(kw, name) == <<kw, " ", "BQ">> \o Heading(name) \o <<"BQ">>

\* the lines of a RENAMED section, and the heading of another section
DeltaRenameLines ==
    { <<"RENAMED">>, <<"ADDED">>,
      RenameLine("FROM", NameA),
      RenameLine("FROM", NameB),
      RenameLine("TO", NameAB),
      RenameLine("TO", NameC) }

DeltaSpecDocuments ==
    {JoinLines(ls \o <<<<>>>>) :
        ls \in UNION {[1..n -> DeltaBlockLines] : n \in 0..MaxLines}
               \cup UNION {[1..n -> DeltaRenameLines] : n \in 0..MaxLines}}

InitDelta ==
    /\ origin = "delta"
    /\ doc \in DeltaSpecDocuments
    /\ stage = "input"
    /\ parsed = <<>>
    /\ serialized = <<>>
    /\ reparsed = <<>>
    /\ isDelta = TRUE
    /\ result = <<>>
    /\ specs = <<>>
    /\ setResult = <<>>
    /\ delta = <<>>
    /\ mainSpec = NoFile
    /\ baseline = NoFile
    /\ pc = "none"
    /\ operations = <<>>
    /\ sorted = <<>>
    /\ idx = 1
    /\ mainContent = <<>>
    /\ prev = <<>>
    /\ log = <<>>
    /\ NoCommand

\* parseDeltaSpec(doc)
ParseDelta ==
    /\ origin = "delta"
    /\ stage = "input"
    /\ parsed' = ParseDeltaSpec(doc)
    /\ stage' = "parsed"
    /\ UNCHANGED <<origin, doc, serialized, reparsed, isDelta, result, specs, setResult>>
    /\ UNCHANGED <<mergeVars, archiveVars>>

NextDelta ==
    \/ ParseDelta

SpecDelta == InitDelta /\ [][NextDelta]_vars

\* ------------------------------------------- what a delta parse is compared by
DeltaParsed == origin = "delta" /\ stage = "parsed"

\* the section a line stands under: that of the last section heading before
\* it, "none" when there is none
SectionOver(i) ==
    LET above == {j \in 1..(i - 1) : SectionOf(DocLines[j]) # "none"}
    IN  IF above = {} THEN "none" ELSE SectionOf(DocLines[MaxOf(above)])

\* the requirement headings under the sections of a kind, in order
HeadingsUnder(kind) == Ascending({i \in RequirementLines : SectionOver(i) = kind})

\* the lines from a requirement heading to the next requirement heading or
\* section heading, or to the end
EntrySpan(i) ==
    LET stops == {j \in (i + 1)..Len(DocLines) :
                    ReqMatch(DocLines[j]) # <<>> \/ SectionOf(DocLines[j]) # "none"}
    IN  (i + 1)..(IF stops = {} THEN Len(DocLines) ELSE MinOf(stops) - 1)

\* the names of the scenario headings in a set of lines, in order
ScenarioNamesIn(span) ==
    LET at == Ascending({j \in span : ScenarioMatch(DocLines[j]) # <<>>})
    IN  [k \in 1..Len(at) |-> ScenarioMatch(DocLines[at[k]])]

\* the entries of a collection are those of the headings, in order, each
\* with the scenarios of its span
HoldsRequirements(collection, headings) ==
    /\ Len(collection) = Len(headings)
    /\ \A k \in 1..Len(collection) :
          /\ collection[k].name = ReqMatch(DocLines[headings[k]])
          /\ [j \in 1..Len(collection[k].scenarios) |-> collection[k].scenarios[j].name]
                = ScenarioNamesIn(EntrySpan(headings[k]))

\* C25: added, modified and removed each hold exactly the entries whose
\* headings stand under their section, in order, each requirement with its
\* scenarios: a section heading files the open entry under the section it
\* closes
C25_SectionSwitchFlushes ==
    DeltaParsed =>
        /\ HoldsRequirements(parsed.added, HeadingsUnder("added"))
        /\ HoldsRequirements(parsed.modified, HeadingsUnder("modified"))
        /\ [k \in 1..Len(parsed.removed) |-> parsed.removed[k].name]
              = [k \in 1..Len(HeadingsUnder("removed")) |->
                    ReqMatch(DocLines[HeadingsUnder("removed")[k]])]

\* an added requirement with its scenario is open when MODIFIED starts
C25_Witness ==
    /\ DeltaParsed
    /\ Len(parsed.added) = 1
    /\ Len(parsed.added[1].scenarios) = 1
    /\ Len(DocLines) >= 4
    /\ SectionOf(DocLines[4]) = "modified"

\* the requirement headings of the body, in order
BodyRequirementLines ==
    Ascending({i \in 1..Len(BodyLines) : ReqMatch(BodyLines[i]) # <<>>})

\* the names of the scenario headings between the k-th requirement heading
\* and the next one, or the end
BodyScenarioNames(k) ==
    LET from == BodyRequirementLines[k]
        to   == IF k < Len(BodyRequirementLines)
                THEN BodyRequirementLines[k + 1] - 1 ELSE Len(BodyLines)
        at   == Ascending({j \in from..to : ScenarioMatch(BodyLines[j]) # <<>>})
    IN  [j \in 1..Len(at) |-> ScenarioMatch(BodyLines[at[j]])]

\* C26: parseSpec gives one Requirement per requirement heading line, in
\* order, each with the scenarios of the scenario headings that follow it, in
\* order; the requirement and scenario open at the end of input are included
C26_OneRequirementPerHeading ==
    (origin = "text" /\ stage = "parsed" /\ ~parsed.threw) =>
        /\ Len(parsed.requirements) = Len(BodyRequirementLines)
        /\ \A k \in 1..Len(parsed.requirements) :
              /\ parsed.requirements[k].name = ReqMatch(BodyLines[BodyRequirementLines[k]])
              /\ [j \in 1..Len(parsed.requirements[k].scenarios) |->
                     parsed.requirements[k].scenarios[j].name] = BodyScenarioNames(k)

\* two requirements, the second with a scenario open at the end of input
C26_Witness ==
    /\ origin = "text"
    /\ stage = "parsed"
    /\ ~parsed.threw
    /\ Len(parsed.requirements) = 2
    /\ parsed.requirements[1].name # parsed.requirements[2].name
    /\ Len(parsed.requirements[2].scenarios) = 1
    /\ ScenarioMatch(BodyLines[Len(BodyLines) - 1]) # <<>>

\* the document is one section heading of a kind followed by one
\* requirement block
OneBlockUnder(kind) ==
    /\ Len(DocLines) >= 2
    /\ SectionOf(DocLines[1]) = kind
    /\ ReqMatch(DocLines[2]) # <<>>
    /\ \A j \in 3..Len(DocLines) :
          ReqMatch(DocLines[j]) = <<>> /\ SectionOf(DocLines[j]) = "none"

\* the text of the requirement block under the section heading
BlockText == JoinLines(SubSeq(DocLines, 2, Len(DocLines)))

\* C27: a requirement block under ADDED or MODIFIED gives the same
\* Requirement (name, description, scenarios with their clauses) in
\* parseDeltaSpec as parseSpec gives for the block alone
C27_SameRequirementAsParseSpec ==
    /\ (DeltaParsed /\ OneBlockUnder("added")) =>
           parsed.added = ParseSpec(BlockText).requirements
    /\ (DeltaParsed /\ OneBlockUnder("modified")) =>
           parsed.modified = ParseSpec(BlockText).requirements

\* the FROM lines and the TO lines under a RENAMED section
FromLines ==
    Ascending({i \in 1..Len(DocLines) :
                 SectionOver(i) = "renamed" /\ RenameMatch(DocLines[i], "FROM") # <<>>})
ToLines ==
    {i \in 1..Len(DocLines) :
        SectionOver(i) = "renamed" /\ RenameMatch(DocLines[i], "TO") # <<>>}

\* the TO lines between the k-th FROM line and the next one, or the end
ToLinesAfter(k) ==
    {i \in ToLines :
        /\ i > FromLines[k]
        /\ k < Len(FromLines) => i < FromLines[k + 1]}

\* C28: every FROM line of a RENAMED section opens one renamed entry, in
\* order; the TO line following it sets the entry's to, and a FROM with no TO
\* before the next FROM or the end keeps an empty to
C28_OneRenamedPerFrom ==
    DeltaParsed =>
        /\ Len(parsed.renamed) = Len(FromLines)
        /\ \A k \in 1..Len(parsed.renamed) :
              /\ parsed.renamed[k].from = RenameMatch(DocLines[FromLines[k]], "FROM")
              /\ ToLinesAfter(k) = {} => parsed.renamed[k].to = <<>>
              /\ ToLinesAfter(k) # {} =>
                    \E i \in ToLinesAfter(k) :
                        parsed.renamed[k].to = RenameMatch(DocLines[i], "TO")

\* two FROM lines, the first without a TO, the second with one
C28_Witness ==
    /\ DeltaParsed
    /\ Len(parsed.renamed) = 2
    /\ parsed.renamed[1].to = <<>>
    /\ parsed.renamed[2].to # <<>>
    /\ ToLinesAfter(2) # {}

\* the latest operation applied is a rename with both names
Renamed ==
    /\ Stepped
    /\ LastOp.type = "renamed"
    /\ LastOp.fromName # <<>>
    /\ LastOp.toName # <<>>

\* the positions of the blocks the latest operation changed
ChangedBlocks ==
    {i \in 1..Len(Blocks(prev)) :
        i > Len(Blocks(mainContent)) \/ Blocks(mainContent)[i] # Blocks(prev)[i]}

\* block b with the heading of name from replaced by that of name to
Reheaded(b, from, to) ==
    Heading(to) \o SubSeq(b, Len(Heading(from)) + 1, Len(b))

C30_OnlyAddedNotIdempotent ==
    Stepped =>
        IF LastOp.type = "added"
        THEN TrimmedBlocks(ApplyOperation(mainContent, LastOp))
                = TrimmedBlocks(mainContent) \o <<Trim(LastOp.content)>>
        ELSE ApplyOperation(mainContent, LastOp) = mainContent

\* the symbol that tags the log line of a kind
SymbolOf(type) ==
    CASE type = "renamed"  -> "->"
      [] type = "removed"  -> "-"
      [] type = "modified" -> "~"
      [] type = "added"    -> "+"

C32_NoOperationsKeepsBaseline ==
    (pc = "done" /\ Len(operations) = 0 /\ baseline.exists) => mainSpec = baseline

\* what the archive command extracts from the same delta text
Extracted == ParseDeltaOperations(doc)

\* the names of a sequence of entries or operations
OperationNames(ops) == [k \in 1..Len(ops) |-> ops[k].requirement]
EntryNames(entries) == [k \in 1..Len(entries) |-> entries[k].name]

\* C33: the operations parseDeltaOperations extracts from a delta text
\* correspond one to one to the entries parseDeltaSpec returns for it: the
\* same names in the same order within each kind, the same rename pairs
C33_OperationsMatchEntries ==
    DeltaParsed =>
        /\ OperationNames(OfType(Extracted, "added")) = EntryNames(parsed.added)
        /\ OperationNames(OfType(Extracted, "modified")) = EntryNames(parsed.modified)
        /\ OperationNames(OfType(Extracted, "removed")) = EntryNames(parsed.removed)
        /\ [k \in 1..Len(OfType(Extracted, "renamed")) |->
               [from |-> OfType(Extracted, "renamed")[k].fromName,
                to   |-> OfType(Extracted, "renamed")[k].toName]] = parsed.renamed

\* the names of the requirement headings of a text are pairwise distinct
UniqueNames(text) ==
    \A i, j \in 1..Len(Blocks(text)) :
        i # j => BlockName(Blocks(text)[i]) # BlockName(Blocks(text)[j])

\* C34: merging keeps requirement names unique: when the names of the
\* baseline are pairwise distinct, so are the requirement headings of the
\* merged text, whatever the operations
C34_MergeKeepsNamesUnique ==
    (Merged /\ UniqueNames(BaselineText)) => UniqueNames(mainSpec.content)

\* C35: when validateSpec(text, name, false) returns valid = true, every
\* scenario parseSpec finds in the text has a non-empty when and at least
\* one then
C35_ValidScenariosComplete ==
    (Validated /\ ~isDelta /\ result.valid /\ ~ParseSpec(doc).threw) =>
        \A k \in 1..Len(AllScenarios(ParseSpec(doc).requirements)) :
            /\ AllScenarios(ParseSpec(doc).requirements)[k].when # <<>>
            /\ AllScenarios(ParseSpec(doc).requirements)[k].then # <<>>

\* C36: with isDelta true, a document whose REMOVED section has entries that
\* all carry a Reason line gets no REMOVED_NO_REASON warning
C36_ReasonedRemovalsNoWarning ==
    (Validated /\ isDelta /\ RemovedEntries # {} /\ \A i \in RemovedEntries : HasReason(i)) =>
        WithCode(result.warnings, "REMOVED_NO_REASON") = <<>>

\* the command is past the application of the deltas
MoveStarted == apc \in {"moving", "complete"} \/ archiveEntries # {}

Written ==
    \/ \E c \in 1..Len(capabilities) : mainSpecs[c] # "baseline"
    \/ archiveEntries # {}

\* C38: the command writes no main spec and moves nothing unless the
\* prerequisites hold and the user confirmed or --yes was given; with
\* --skip-specs no main spec is written
C38_WritesNeedPrerequisitesAndConsent ==
    apc # "none" =>
        /\ Written =>
              /\ change.proposal /\ change.design /\ change.specs
              /\ change.tasks # "incomplete"
              /\ options.yes \/ confirmed = "yes"
        /\ options.skipSpecs =>
              \A c \in 1..Len(capabilities) : mainSpecs[c] = "baseline"

\* the user confirmed at the prompt and a main spec was written
C38_Witness ==
    /\ ~options.yes
    /\ confirmed = "yes"
    /\ ~options.skipSpecs
    /\ \E c \in 1..Len(capabilities) : mainSpecs[c] = "merged"
    /\ archiveEntries # {}

\* C39: a renamed entry that has its FROM and its TO is not changed by later
\* lines: its to is that of the first TO line after its FROM line
C39_CompleteRenameIsKept ==
    DeltaParsed =>
        \A k \in 1..MinOf({Len(parsed.renamed), Len(FromLines)}) :
            ToLinesAfter(k) # {} =>
                parsed.renamed[k].to = RenameMatch(DocLines[MinOf(ToLinesAfter(k))], "TO")

============================================================================
